---- MODULE Spec2Model ----
(***************************************************************************)
(* A model of the audio player core of shairport-sync (src/player.c): the  *)
(* jitter buffer filled by player_put_packet, the scheduler thread         *)
(* (player_thread_func calling buffer_get_frame) and the control calls     *)
(* player_flush and player_stop.                                           *)
(*                                                                         *)
(* Numbers.  Sequence numbers are 16-bit (seq_t) and kept modulo 2^16.     *)
(* RTP timestamps are 32-bit; a timestamp is the pair <<hi, lo>> of its    *)
(* two 16-bit halves, so that every 32-bit value and the 32-bit wrap are   *)
(* exact.  Time is counted in frame periods (1/44100 s): the clock and the *)
(* reference anchor take values that are whole numbers of frame periods.   *)
(***************************************************************************)
EXTENDS Integers, Sequences, FiniteSets, TLC

----------------------------------------------------------------------------
(* Program constants *)

\* #define BUFFER_FRAMES 512
BUFFER_FRAMES == 512

\* seq_t is a 16-bit unsigned number: 0 .. 0xffff
SEQ_MOD == 65536

\* the upper bound of the flush drain, "flush_limit <= 8820"
FLUSH_LIMIT == 8820

\* frame_size = fmtp[1], 352 stereo samples per packet
frame_size == 352

\* #define DAC_BUFFER_QUEUE_MINIMUM_LENGTH 5000
DAC_BUFFER_QUEUE_MINIMUM_LENGTH == 5000

----------------------------------------------------------------------------
(* Bounds of the model *)

\* put_packet calls per run (packet_count is a uint64_t in the source)
MaxPackets == 3

\* player_flush calls made by the control thread per run
MaxFlushes == 1

\* player_play calls in a run, the first included
MaxSessions == 2

----------------------------------------------------------------------------
(* 32-bit timestamps as <<hi, lo>> *)

Zero32 == <<0, 0>>

U32(n) == <<n \div SEQ_MOD, n % SEQ_MOD>>

\* (a + n) mod 2^32, n a small integer (may be negative)
Add32(a, n) ==
    LET lo == a[2] + n
    IN  <<(a[1] + (lo \div SEQ_MOD)) % SEQ_MOD, lo % SEQ_MOD>>

\* (b - a) mod 2^32
Sub32(b, a) ==
    LET lo == b[2] - a[2]
    IN  <<(b[1] - a[1] + (lo \div SEQ_MOD)) % SEQ_MOD, lo % SEQ_MOD>>

----------------------------------------------------------------------------
(* Sequence arithmetic *)

BUFIDX(seqno) == (seqno % SEQ_MOD) % BUFFER_FRAMES

\* a faulty successor: the sum is not masked to 16 bits
SUCCESSOR_NoWrap(x) == (x % SEQ_MOD) + 1

SUCCESSOR(x) == ((x % SEQ_MOD) + 1) % SEQ_MOD

PREDECESSOR(x) == ((x % SEQ_MOD) + SEQ_MOD - 1) % SEQ_MOD

\* ORDINATE reads the global ab_read; the anchor is passed explicitly here.
ORDINATE(x, anchor) ==
    LET p == x % SEQ_MOD
        q == anchor % SEQ_MOD
        t == (p + SEQ_MOD - q) % SEQ_MOD
    IN  IF t >= 32767 THEN t - 65536 ELSE t

seq_diff(a, b, anchor) == ORDINATE(b, anchor) - ORDINATE(a, anchor)

seq_order(a, b, anchor) == ORDINATE(b, anchor) - ORDINATE(a, anchor) > 0

seq_sum(a, b) == (a + b) % SEQ_MOD

\* true iff b is strictly after a: bit 31 of (b - a) is clear and a # b
seq32_order(a, b) ==
    IF a = b THEN FALSE ELSE Sub32(b, a)[1] < 32768

----------------------------------------------------------------------------
(* The slot ring *)

\* data: what the slot's PCM buffer holds: <<"uninit">> after malloc,
\* <<"pcm", seqno, timestamp>> after alac_decode of that packet, <<"zero">> after memset
EmptySlot ==
    [ready |-> FALSE, timestamp |-> Zero32, sequence_number |-> 0, data |-> <<"uninit">>]

SlotIdx == 0 .. (BUFFER_FRAMES - 1)


\* audio_buffer is kept as the function from the indices of the slots that differ
\* from EmptySlot to their contents; Slot(buf, i) is audio_buffer[i] of the source.
Slot(buf, i) == IF i \in DOMAIN buf THEN buf[i] ELSE EmptySlot

\* audio_buffer[i] = s
Store(buf, i, s) ==
    IF s = EmptySlot
    THEN [j \in (DOMAIN buf) \ {i} |-> buf[j]]
    ELSE [j \in (DOMAIN buf) \cup {i} |-> IF j = i THEN s ELSE buf[j]]

\* the slot written by the gap loop: ready = 0, timestamp = 0, sequence_number = 0
GapCleared(s) == [s EXCEPT !.ready = FALSE, !.timestamp = Zero32, !.sequence_number = 0]

\* the slot written by ab_resync: ready = 0, sequence_number = 0
ResyncCleared(s) == [s EXCEPT !.ready = FALSE, !.sequence_number = 0]

\* the gap loop over the slots whose index is in S
ClearGap(buf, S) ==
    LET New(j) == IF j \in S THEN GapCleared(buf[j]) ELSE buf[j]
    IN  [j \in {k \in DOMAIN buf : New(k) # EmptySlot} |-> New(j)]

\* for (i = 0; i < gap; i++) abuf = audio_buffer + BUFIDX(seq_sum(ab_write, i)): the
\* indices visited (all of them once gap reaches BUFFER_FRAMES)
GapIndices(w, gap) ==
    IF gap >= BUFFER_FRAMES THEN SlotIdx
    ELSE {BUFIDX(seq_sum(w, i)) : i \in 0 .. (gap - 1)}

----------------------------------------------------------------------------
(* Wide signed integers (int64_t of the source) as <<hi, lo>>, value hi * 2^16 + lo *)

W(n) == <<n \div SEQ_MOD, n % SEQ_MOD>>

WAdd(a, b) ==
    LET lo == a[2] + b[2]
    IN  <<a[1] + b[1] + (lo \div SEQ_MOD), lo % SEQ_MOD>>

WSub(a, b) ==
    LET lo == a[2] - b[2]
    IN  <<a[1] - b[1] + (lo \div SEQ_MOD), lo % SEQ_MOD>>

WLeq(a, b) == a[1] < b[1] \/ (a[1] = b[1] /\ a[2] <= b[2])

\* local_time_now >= t with local_time_now a uint64_t and t an int64_t: t is
\* converted to unsigned, so a negative t compares as a huge value
TimeReached(t_now, t) == t[1] >= 0 /\ WLeq(t, W(t_now))

----------------------------------------------------------------------------
(* Configuration and external collaborators *)

\* the config structure (common.h), with the defaults of the program
DefaultConfig ==
    [latency |-> 88200,
     audio_backend_latency_offset |-> 0,
     audio_backend_buffer_desired_length |-> 6615,
     tolerance |-> 88,
     resyncthreshold |-> 2205,
     timeout |-> 120,
     dont_check_timeout |-> FALSE,
     output_has_flush |-> TRUE,
     output_has_delay |-> TRUE]

\* the timestamp the control thread flushes to, and packet timestamps around it
FlushTs == U32(55000)

TsInputs == {Add32(FlushTs, -1), FlushTs, Add32(FlushTs, 1)}

\* the timestamp of the packets of the runs without a flush by the control thread
PacketTs == Add32(FlushTs, 1)

\* the sequence numbers offered to put_packet, as distances from ab_write: the
\* expected packet, a gap of one, gaps of BUFFER_FRAMES - 2 and BUFFER_FRAMES - 1
\* (which wrap the ring onto slots written before), a far-ahead packet, and a packet
\* two behind ab_write
SeqOffsets == {0, 1, BUFFER_FRAMES - 2, BUFFER_FRAMES - 1, 32764, SEQ_MOD - 2}

\* the distance from ab_write offered in the runs with a flush by the control thread:
\* packets in order
FlushSeqOffsets == {0}

\* what get_reference_timestamp_stuff reports: no lock yet (reference_timestamp = 0),
\* or an anchor <<reference_timestamp, reference_timestamp_time in frame periods>>
RefLocked == [ts |-> Add32(FlushTs, -1), time |-> 44100]

RefInputs == {[ts |-> Zero32, time |-> 0], RefLocked}

\* what config.output->delay() reports
DacDelays == {0}

\* the instants the clock is read at, in frame periods: at start, and shortly before
\* and after the first packets' deadline
Instants == {44100, 131300, 133300}

----------------------------------------------------------------------------
(* State *)

VARIABLES
    audio_buffer,               \* the slot ring
    ab_read, ab_write,          \* reader and writer cursors
    ab_synced, ab_buffering,
    first_packet_timestamp,     \* uint32_t, Zero32 when unset
    first_packet_time_to_play,  \* int64_t in frame periods (wide), W(0) when unset
    flush_requested, flush_rtp_timestamp,
    time_of_last_audio_packet,  \* in frame periods, 0 when no packet has arrived
    shutdown_requested,
    connection_state_to_output,
    please_stop,
    packet_count, missing_packets, late_packets, too_late_packets, resend_requests,
    last_seqno_read,            \* int32_t, -1 after ab_resync
    sync_error_out_of_bounds,   \* local of player_thread_func
    pc,                         \* where the scheduler thread is
    inframe,                    \* the slot index buffer_get_frame returned, -1 for none
    flush_limit,                \* local of buffer_get_frame: frames dropped by the drain
    now,                        \* the clock, get_absolute_time_in_fp(), in frame periods
    resend_out,                 \* rtp_request_resend calls of the latest put_packet / get_frame
    shutdown_calls,             \* rtsp_request_shutdown_stream calls so far in the session
    flush_calls,                \* player_flush calls made by the control thread so far in
                                \* the session
    flush_boundary,             \* the timestamp of the latest player_flush call
    run_last,                   \* sequence_number of the latest real frame returned since
                                \* the latest ab_resync, -1 for none
    late_seqno,                 \* seqno of the latest packet stored by the "late" branch of
                                \* player_put_packet, -1 for none
    filter_at_put,              \* flush_rtp_timestamp as the filter test of the latest
                                \* player_put_packet read it, Zero32 if it was not reached
    number_of_statistics,       \* local of player_thread_func: sync_error samples recorded
    last_play,                  \* the latest config.output->play call of player_thread_func's
                                \* loop and the amount_to_stuff it was made with
    access_log,                 \* per thread, the mutex operations and the accesses to the
                                \* guarded variables made by its latest step
    config,                     \* the configuration, set before player_play and never changed
    sessions,                   \* player_play calls so far
    seq_calc,                   \* the input and the result of a sequence calculation
    last_arrival,               \* the clock at the latest player_put_packet call of the
                                \* session, 0 when there was none
    shutdown_at,                \* the clock at the latest rtsp_request_shutdown_stream call
                                \* of the session, 0 when there was none
    stuff_calc,                 \* the arguments and the result of a stuff_buffer_basic call
    calc                        \* the arguments and the result of a calculation of
                                \* buffer_get_frame or player_thread_func

ringvars == <<audio_buffer, ab_read, ab_write, ab_synced, ab_buffering>>

startvars == <<first_packet_timestamp, first_packet_time_to_play>>

flushvars == <<flush_requested, flush_rtp_timestamp, flush_boundary>>

statvars == <<missing_packets, late_packets, too_late_packets, resend_requests>>

threadvars == <<last_seqno_read, sync_error_out_of_bounds, pc, inframe, flush_limit>>

vars ==
    <<audio_buffer, ab_read, ab_write, ab_synced, ab_buffering, first_packet_timestamp,
      first_packet_time_to_play, flush_requested, flush_rtp_timestamp,
      time_of_last_audio_packet, shutdown_requested, connection_state_to_output,
      please_stop, packet_count, missing_packets, late_packets, too_late_packets,
      resend_requests, last_seqno_read, sync_error_out_of_bounds, pc, inframe,
      flush_limit, now, resend_out, shutdown_calls, flush_calls, flush_boundary,
      run_last,
      late_seqno, filter_at_put, number_of_statistics, last_play, access_log, config,
      sessions, seq_calc, last_arrival, shutdown_at, stuff_calc, calc>>

\* what no step of the scheduler thread changes
auxvars == <<config, sessions, seq_calc, last_arrival, shutdown_at, stuff_calc, calc>>

\* the scheduler thread holds ab_mutex from pthread_mutex_lock at the top of
\* buffer_get_frame until it waits on flowcontrol or returns
MutexHeld == pc \in {"drain", "decide"}

\* no config.output->play call made yet
NoPlay == [samples |-> 0, stuffing |-> FALSE, amount_to_stuff |-> 0]

\* The operations a step logs: pthread_mutex_lock and pthread_mutex_unlock of a mutex
\* (the release inside pthread_cond_timedwait is an unlock, its return a lock), and the
\* reads and writes of the variables the mutexes are there for.
Lock(m) == <<"lock", m>>

Unlock(m) == <<"unlock", m>>

Read(x) == <<"read", x>>

Write(x) == <<"write", x>>

\* a call of a hook of the audio output
Call(f) == <<"call", f>>

\* pthread_cond_signal(&flowcontrol)
Signal == <<"signal", "flowcontrol">>

\* the log of one step of a thread: the mutexes the thread holds when the step begins
\* and the operations of the step, in order
Log(held, ops) == [held |-> held, ops |-> ops]

NoAccess ==
    [producer |-> Log({}, <<>>), control |-> Log({}, <<>>), scheduler |-> Log({}, <<>>)]

\* the mutexes the scheduler thread holds between two steps
SchedulerHeld == IF MutexHeld THEN {"ab_mutex"} ELSE {}

\* a faulty player_flush: it takes ab_mutex inside flush_mutex
player_flush_trace_Nested ==
    <<Lock("flush_mutex"), Lock("ab_mutex"), Write("flush_requested"),
      Write("flush_rtp_timestamp"), Unlock("ab_mutex"), Unlock("flush_mutex")>>

\* player_flush: its mutex operations and accesses
player_flush_trace ==
    <<Lock("flush_mutex"), Write("flush_requested"), Write("flush_rtp_timestamp"),
      Unlock("flush_mutex")>>

\* The state when player_play has returned for the first time, with configuration cfg:
\* statics zero-initialised, init_buffer and ab_resync done, please_stop = 0, the
\* scheduler thread created and not yet run.
InitWith(cfg) ==
    /\ audio_buffer = <<>>
    /\ ab_read = 0
    /\ ab_write = 0
    /\ ab_synced = FALSE
    /\ ab_buffering = TRUE
    /\ first_packet_timestamp = Zero32
    /\ first_packet_time_to_play = W(0)
    /\ flush_requested = FALSE
    /\ flush_rtp_timestamp = Zero32
    /\ time_of_last_audio_packet = 0
    /\ shutdown_requested = FALSE
    /\ connection_state_to_output = FALSE
    /\ please_stop = FALSE
    /\ packet_count = 0
    /\ missing_packets = 0
    /\ late_packets = 0
    /\ too_late_packets = 0
    /\ resend_requests = 0
    /\ last_seqno_read = -1
    /\ sync_error_out_of_bounds = 0
    /\ pc = "start"
    /\ inframe = -1
    /\ flush_limit = 0
    /\ now = 44100
    /\ resend_out = <<>>
    /\ shutdown_calls = 0
    /\ flush_calls = 0
    /\ flush_boundary = Zero32
    /\ run_last = -1
    /\ late_seqno = -1
    /\ filter_at_put = Zero32
    /\ number_of_statistics = 0
    /\ last_play = NoPlay
    /\ access_log = NoAccess
    /\ config = cfg
    /\ sessions = 1
    /\ last_arrival = 0
    /\ shutdown_at = 0

Init == InitWith(DefaultConfig) /\ seq_calc = <<>> /\ stuff_calc = <<>> /\ calc = <<>>

----------------------------------------------------------------------------
(* player_put_packet *)

\* a faulty filter test: a packet timed exactly at the flush timestamp passes
PutFiltered_NotAt(timestamp) ==
    /\ flush_rtp_timestamp # Zero32
    /\ seq32_order(timestamp, flush_rtp_timestamp)

\* the flush filter test of player_put_packet
PutFiltered(timestamp) ==
    /\ flush_rtp_timestamp # Zero32
    /\ (timestamp = flush_rtp_timestamp \/ seq32_order(timestamp, flush_rtp_timestamp))

\* the cursors after "if (!ab_synced) { ab_write = seqno; ab_read = seqno; ... }"
PutRead(seqno) == IF ab_synced THEN ab_read ELSE seqno

PutWrite(seqno) == IF ab_synced THEN ab_write ELSE seqno

\* the branch of the classification that a packet with this seqno takes
PutClass(seqno) ==
    IF PutWrite(seqno) = seqno THEN "expected"
    ELSE IF seq_order(PutWrite(seqno), seqno, PutRead(seqno)) THEN "ahead"
    ELSE IF seq_order(PutRead(seqno), seqno, PutRead(seqno)) THEN "late"
    ELSE "too_late"

\* int32_t gap = seq_diff(ab_write, PREDECESSOR(seqno)) + 1
PutGap(seqno) == seq_diff(PutWrite(seqno), PREDECESSOR(seqno), PutRead(seqno)) + 1

\* the slot a decoded packet is stored as
Decoded(seqno, timestamp) ==
    [ready |-> TRUE, timestamp |-> timestamp, sequence_number |-> seqno,
     data |-> <<"pcm", seqno, timestamp>>]

\* a faulty player_put_packet: a packet that is too late is decoded into its slot too
PutBuffer_StoreTooLate(seqno, timestamp) ==
    LET cls == PutClass(seqno)
        cleared == IF cls = "ahead"
                   THEN ClearGap(audio_buffer, GapIndices(PutWrite(seqno), PutGap(seqno)))
                   ELSE audio_buffer
    IN  Store(cleared, BUFIDX(seqno), Decoded(seqno, timestamp))

\* the ring after the packet is classified and, if a slot was selected, decoded
PutBuffer(seqno, timestamp) ==
    LET cls == PutClass(seqno)
        cleared == IF cls = "ahead"
                   THEN ClearGap(audio_buffer, GapIndices(PutWrite(seqno), PutGap(seqno)))
                   ELSE audio_buffer
    IN  IF cls = "too_late" THEN cleared
        ELSE Store(cleared, BUFIDX(seqno), Decoded(seqno, timestamp))

\* the part of player_put_packet that runs when the packet passes the flush filter
PutAccepted(seqno, timestamp) ==
    LET cls == PutClass(seqno)
    IN  /\ flush_rtp_timestamp' =
              IF flush_rtp_timestamp # Zero32 /\ ~seq32_order(timestamp, flush_rtp_timestamp)
              THEN Zero32 ELSE flush_rtp_timestamp
        /\ ab_synced' = TRUE
        /\ ab_read' = PutRead(seqno)
        /\ ab_write' = IF cls \in {"expected", "ahead"} THEN SUCCESSOR(seqno)
                       ELSE PutWrite(seqno)
        /\ audio_buffer' = PutBuffer(seqno, timestamp)
        /\ resend_out' = IF cls = "ahead" THEN <<<<PutWrite(seqno), PutGap(seqno)>>>>
                         ELSE <<>>
        /\ resend_requests' = IF cls = "ahead" THEN resend_requests + 1 ELSE resend_requests
        /\ late_packets' = IF cls = "late" THEN late_packets + 1 ELSE late_packets
        /\ too_late_packets' = IF cls = "too_late" THEN too_late_packets + 1
                               ELSE too_late_packets
        /\ late_seqno' = IF cls = "late" THEN seqno ELSE late_seqno

\* the mutex operations and accesses of player_put_packet
player_put_packet_trace(seqno, timestamp) ==
    LET cls == PutClass(seqno)
        clears == flush_rtp_timestamp # Zero32 /\ ~seq32_order(timestamp, flush_rtp_timestamp)
        accepted ==
            <<Read("flush_rtp_timestamp")>>
            \o (IF clears THEN <<Write("flush_rtp_timestamp")>> ELSE <<>>)
            \o (IF ab_synced THEN <<>> ELSE <<Write("ab_write"), Write("ab_read")>>)
            \o <<Read("ab_write")>>
            \o (IF cls = "expected" THEN <<>> ELSE <<Read("ab_read")>>)
            \o (IF cls = "ahead" THEN <<Write("slot")>> ELSE <<>>)
            \o (IF cls \in {"expected", "ahead"} THEN <<Write("ab_write")>> ELSE <<>>)
            \o (IF cls # "too_late" THEN <<Write("slot")>> ELSE <<>>)
    IN  <<Lock("ab_mutex")>>
        \o (IF ~connection_state_to_output THEN <<>>
            ELSE <<Read("flush_rtp_timestamp")>>
                 \o (IF PutFiltered(timestamp) THEN <<>> ELSE accepted)
                 \o <<Signal>>)
        \o <<Unlock("ab_mutex")>>

\* player_put_packet(seqno, timestamp, data, len), atomic under ab_mutex, for a run of
\* at most limit packets
put_packet(seqno, timestamp, limit) ==
    /\ ~MutexHeld
    /\ packet_count < limit
    /\ packet_count' = packet_count + 1
    /\ time_of_last_audio_packet' = now
    /\ last_arrival' = now
    /\ filter_at_put' = IF connection_state_to_output THEN flush_rtp_timestamp ELSE Zero32
    /\ access_log' = [access_log EXCEPT
                          !.producer = Log({}, player_put_packet_trace(seqno, timestamp))]
    /\ IF connection_state_to_output /\ ~PutFiltered(timestamp)
       THEN PutAccepted(seqno, timestamp)
       ELSE /\ resend_out' = <<>>
            /\ UNCHANGED <<ringvars, flush_rtp_timestamp, statvars, late_seqno>>
    /\ UNCHANGED <<number_of_statistics, last_play, config, sessions, seq_calc, stuff_calc, calc,
                   shutdown_at, ab_buffering, startvars, flush_requested, flush_boundary,
                   shutdown_requested, connection_state_to_output, please_stop,
                   missing_packets, threadvars,
                   now, shutdown_calls, flush_calls, run_last>>

\* player_put_packet in the runs of at most MaxPackets packets
player_put_packet(seqno, timestamp) == put_packet(seqno, timestamp, MaxPackets)

----------------------------------------------------------------------------
(* player_flush and player_stop *)

\* player_flush(timestamp), called by the control thread; it takes flush_mutex only
player_flush(timestamp) ==
    /\ flush_calls < MaxFlushes
    /\ flush_calls' = flush_calls + 1
    /\ flush_requested' = TRUE
    /\ flush_rtp_timestamp' = timestamp
    /\ flush_boundary' = timestamp
    /\ access_log' = [access_log EXCEPT !.control = Log({}, player_flush_trace)]
    /\ UNCHANGED <<filter_at_put, number_of_statistics, last_play, auxvars,
                   ringvars, startvars, time_of_last_audio_packet, shutdown_requested,
                   connection_state_to_output, please_stop, packet_count, late_seqno, statvars,
                   threadvars, now, resend_out, shutdown_calls, run_last>>

\* player_stop up to pthread_join: please_stop = 1 and the signal to flowcontrol
player_stop ==
    /\ ~please_stop
    /\ pc # "start"
    /\ please_stop' = TRUE
    /\ access_log' = [access_log EXCEPT !.control = Log({}, <<Signal>>)]
    /\ UNCHANGED <<filter_at_put, number_of_statistics, last_play, auxvars,
                   ringvars, startvars, flushvars, time_of_last_audio_packet,
                   shutdown_requested, connection_state_to_output, packet_count, late_seqno,
                   statvars, threadvars, now, resend_out, shutdown_calls, flush_calls,
                   run_last>>

\* the slot after init_buffer: a new buffer from malloc, then ab_resync's clearing
PlayCleared(s) == [ResyncCleared(s) EXCEPT !.data = <<"uninit">>]

\* player_play, called again once player_stop has joined the scheduler thread and
\* freed the buffers: packet_count = 0, init_buffer (malloc and ab_resync),
\* please_stop = 0 and pthread_create
player_play ==
    /\ pc = "stopped"
    /\ sessions < MaxSessions
    /\ sessions' = sessions + 1
    /\ packet_count' = 0
    /\ audio_buffer' =
           [j \in {k \in DOMAIN audio_buffer : PlayCleared(audio_buffer[k]) # EmptySlot} |->
                PlayCleared(audio_buffer[j])]
    /\ ab_synced' = FALSE
    /\ last_seqno_read' = -1
    /\ ab_buffering' = TRUE
    /\ please_stop' = FALSE
    /\ pc' = "start"
    /\ shutdown_calls' = 0
    /\ last_arrival' = 0
    /\ shutdown_at' = 0
    /\ flush_calls' = 0
    /\ run_last' = -1
    /\ UNCHANGED <<filter_at_put, number_of_statistics, last_play, access_log, config,
                   seq_calc, stuff_calc, calc, ab_read, ab_write, startvars, flushvars,
                   time_of_last_audio_packet, shutdown_requested, connection_state_to_output,
                   late_seqno, statvars, sync_error_out_of_bounds, inframe, flush_limit, now,
                   resend_out>>

\* the clock moves on to a later instant
TimePasses ==
    /\ \E t \in Instants : t > now /\ now' = t
    /\ UNCHANGED <<filter_at_put, number_of_statistics, last_play, access_log, auxvars,
                   ringvars, startvars, flushvars, time_of_last_audio_packet,
                   shutdown_requested, connection_state_to_output, please_stop,
                   packet_count, late_seqno, statvars, threadvars, resend_out, shutdown_calls,
                   flush_calls, run_last>>

----------------------------------------------------------------------------
(* The scheduler thread: player_thread_func and buffer_get_frame *)

\* a faulty ab_resync: the slots keep their ready flags
ab_resync_KeepReady(buf) ==
    [j \in DOMAIN buf |-> [buf[j] EXCEPT !.sequence_number = 0]]

\* ab_resync applied to the ring
ab_resync(buf) ==
    [j \in {k \in DOMAIN buf : ResyncCleared(buf[k]) # EmptySlot} |-> ResyncCleared(buf[j])]

\* player_thread_func before its loop: the session's variables are reset
thread_start(rco) ==
    /\ pc = "start"
    /\ pc' = "idle"
    /\ connection_state_to_output' = rco
    /\ time_of_last_audio_packet' = 0
    /\ shutdown_requested' = FALSE
    /\ missing_packets' = 0
    /\ late_packets' = 0
    /\ too_late_packets' = 0
    /\ resend_requests' = 0
    /\ flush_rtp_timestamp' = Zero32
    /\ sync_error_out_of_bounds' = 0
    /\ number_of_statistics' = 0
    /\ access_log' = [access_log EXCEPT
                          !.scheduler = Log({}, <<Write("flush_rtp_timestamp")>>)]
    /\ UNCHANGED <<filter_at_put, last_play, auxvars,
                   ringvars, startvars, flush_requested, flush_boundary, please_stop,
                   packet_count, late_seqno, last_seqno_read, inframe, flush_limit, now, resend_out,
                   shutdown_calls, flush_calls, run_last>>

\* "while (!please_stop)" of player_thread_func with please_stop set: the thread ends
thread_exit ==
    /\ pc = "idle"
    /\ please_stop
    /\ pc' = "stopped"
    /\ UNCHANGED <<filter_at_put, number_of_statistics, last_play, access_log, auxvars,
                   ringvars, startvars, flushvars, time_of_last_audio_packet,
                   shutdown_requested, connection_state_to_output, please_stop,
                   packet_count, late_seqno, statvars, last_seqno_read, sync_error_out_of_bounds,
                   inframe, flush_limit, now, resend_out, shutdown_calls, flush_calls,
                   run_last>>

\* a faulty timeout test: shutdown_requested is not looked at
TimedOut_Again ==
    /\ time_of_last_audio_packet # 0
    /\ ~config.dont_check_timeout
    /\ now > time_of_last_audio_packet
    /\ now - time_of_last_audio_packet >= config.timeout * 44100

\* the timeout test at the top of buffer_get_frame's loop
TimedOut ==
    /\ time_of_last_audio_packet # 0
    /\ ~shutdown_requested
    /\ ~config.dont_check_timeout
    /\ now > time_of_last_audio_packet
    /\ now - time_of_last_audio_packet >= config.timeout * 44100

\* the mutex operations and accesses of the top of buffer_get_frame's loop
get_frame_top_trace(rco) ==
    LET off == connection_state_to_output # rco /\ ~rco
    IN  <<Lock("ab_mutex")>>
        \o (IF off
            THEN <<Lock("flush_mutex"), Write("flush_requested"), Unlock("flush_mutex")>>
            ELSE <<>>)
        \o <<Lock("flush_mutex"), Read("flush_requested")>>
        \o (IF flush_requested \/ off
            THEN (IF config.output_has_flush THEN <<Call("flush")>> ELSE <<>>)
                 \o <<Write("slot"), Write("flush_requested")>>
            ELSE <<>>)
        \o <<Unlock("flush_mutex")>>

\* The top of buffer_get_frame's loop, entered by the call (ab_mutex is taken) or by
\* the return of pthread_cond_timedwait: the timeout test, the connection state and
\* the application of a requested flush.
get_frame_top(rco) ==
    /\ pc \in {"idle", "waiting"}
    /\ pc = "idle" => ~please_stop
    /\ pc' = "drain"
    /\ shutdown_requested' = (shutdown_requested \/ TimedOut)
    /\ shutdown_calls' = IF TimedOut THEN shutdown_calls + 1 ELSE shutdown_calls
    /\ shutdown_at' = IF TimedOut THEN now ELSE shutdown_at
    /\ connection_state_to_output' = rco
    /\ LET requested == flush_requested \/ (connection_state_to_output # rco /\ ~rco)
       IN  /\ flush_requested' = FALSE
           /\ audio_buffer' = IF requested THEN ab_resync(audio_buffer) ELSE audio_buffer
           /\ ab_synced' = IF requested THEN FALSE ELSE ab_synced
           /\ ab_buffering' = IF requested THEN TRUE ELSE ab_buffering
           /\ last_seqno_read' = IF requested THEN -1 ELSE last_seqno_read
           /\ run_last' = IF requested THEN -1 ELSE run_last
           /\ first_packet_timestamp' =
                  IF requested THEN Zero32 ELSE first_packet_timestamp
           /\ first_packet_time_to_play' =
                  IF requested THEN W(0) ELSE first_packet_time_to_play
    /\ flush_limit' = 0
    /\ inframe' = -1
    /\ access_log' = [access_log EXCEPT
                          !.scheduler = Log(SchedulerHeld, get_frame_top_trace(rco))]
    /\ UNCHANGED <<filter_at_put, number_of_statistics, last_play, config, sessions,
                   seq_calc, stuff_calc, calc, last_arrival,
                   ab_read, ab_write, flush_rtp_timestamp, flush_boundary,
                   time_of_last_audio_packet, please_stop, packet_count, late_seqno, statvars,
                   sync_error_out_of_bounds, now, resend_out, flush_calls>>

\* the frame at the head of the ring
HeadSlot(buf, rd) == Slot(buf, BUFIDX(rd))

\* ab_read after the aliasing test on a ready head slot
AliasRead(cur) ==
    IF /\ cur.sequence_number # ab_read
       /\ BUFIDX(cur.sequence_number) = BUFIDX(ab_read)
       /\ seq_order(ab_read, cur.sequence_number, ab_read)
    THEN cur.sequence_number ELSE ab_read

\* the drain's test of a ready head slot against the flush filter
DrainDrops(cur) ==
    /\ flush_rtp_timestamp # Zero32
    /\ (cur.timestamp = flush_rtp_timestamp \/ seq32_order(cur.timestamp, flush_rtp_timestamp))

\* "if we have gone past the flush boundary time", on a ready head slot
DrainClears(cur) ==
    /\ flush_rtp_timestamp # Zero32
    /\ ~seq32_order(cur.timestamp, flush_rtp_timestamp)

\* the accesses of one pass of the drain
get_frame_drain_trace ==
    LET cur == HeadSlot(audio_buffer, ab_read)
    IN  IF ~ab_synced THEN <<>>
        ELSE <<Read("ab_read"), Read("slot")>>
             \o (IF cur.ready /\ AliasRead(cur) # ab_read THEN <<Write("ab_read")>> ELSE <<>>)
             \o (IF cur.ready THEN <<Read("flush_rtp_timestamp")>> ELSE <<>>)
             \o (IF cur.ready /\ DrainDrops(cur)
                 THEN <<Write("slot"), Write("ab_read")>> ELSE <<>>)
             \o (IF cur.ready /\ DrainClears(cur)
                 THEN <<Write("flush_rtp_timestamp")>> ELSE <<>>)
             \o <<Read("flush_rtp_timestamp")>>

\* One pass of the do-while loop of the flush-filter drain (skipped when the ring is
\* not synced).  The loop goes round again while the filter is active, flush_limit is
\* at most FLUSH_LIMIT and the slot it looked at is not ready.
get_frame_drain ==
    /\ pc = "drain"
    /\ LET cur == HeadSlot(audio_buffer, ab_read)
           drops == cur.ready /\ DrainDrops(cur)
           clears == cur.ready /\ DrainClears(cur)
           rd == IF cur.ready THEN AliasRead(cur) ELSE ab_read
           ready1 == cur.ready /\ ~drops
           filter1 == IF clears THEN Zero32 ELSE flush_rtp_timestamp
           limit1 == IF drops THEN flush_limit + 1 ELSE flush_limit
           again == filter1 # Zero32 /\ limit1 <= FLUSH_LIMIT /\ ~ready1
       IN  IF ~ab_synced
           THEN /\ pc' = "decide"
                /\ UNCHANGED <<audio_buffer, ab_read, flush_rtp_timestamp, flush_limit>>
           ELSE /\ pc' = IF again THEN "drain" ELSE "decide"
                /\ audio_buffer' =
                       IF drops
                       THEN Store(audio_buffer, BUFIDX(ab_read), [cur EXCEPT !.ready = FALSE])
                       ELSE audio_buffer
                /\ ab_read' = IF drops THEN SUCCESSOR(rd) ELSE rd
                /\ flush_rtp_timestamp' = filter1
                /\ flush_limit' = limit1
    /\ access_log' = [access_log EXCEPT
                          !.scheduler = Log(SchedulerHeld, get_frame_drain_trace)]
    /\ UNCHANGED <<filter_at_put, number_of_statistics, last_play, auxvars,
                   ab_write, ab_synced, ab_buffering, startvars, flush_requested,
                   flush_boundary, time_of_last_audio_packet, shutdown_requested,
                   connection_state_to_output, please_stop, packet_count, late_seqno, statvars,
                   last_seqno_read, sync_error_out_of_bounds, inframe, now, resend_out,
                   shutdown_calls, flush_calls, run_last>>

----------------------------------------------------------------------------
(* buffer_get_frame after the drain: initial buffering, the play decision, the wait
   or the return of a frame *)

\* a wide integer as a plain one; beyond 2^30 either way it is cut to +-2^30 (such a
\* value is only compared with numbers far smaller)
WToInt(a) ==
    IF a[1] >= 16384 THEN 1073741824
    ELSE IF a[1] < -16384 THEN -1073741824
    ELSE a[1] * SEQ_MOD + a[2]

\* reference_timestamp_time + ((delta + latency + latency offset) << 32) / 44100,
\* with delta = (int64_t)first_packet_timestamp - (int64_t)reference_timestamp
FirstPacketTimeToPlay(ts, ref) ==
    WAdd(W(ref.time),
         WAdd(WSub(ts, ref.ts), W(config.latency + config.audio_backend_latency_offset)))

\* a faulty time_to_play: the requested latency is left out
TimeToPlay_NoLatency(ts, ref) ==
    WAdd(W(ref.time),
         WAdd(WSub(ts, ref.ts),
              W(config.audio_backend_latency_offset
                - config.audio_backend_buffer_desired_length)))

\* time_to_play of the play decision
TimeToPlay(ts, ref) ==
    WAdd(W(ref.time),
         WAdd(WSub(ts, ref.ts),
              W(config.latency + config.audio_backend_latency_offset
                - config.audio_backend_buffer_desired_length)))

\* dac_delay as buffer_get_frame uses it: 0 without a delay hook or on error (-1)
DacDelay(d) == IF config.output_has_delay /\ d # -1 THEN d ELSE 0

\* the size of the block of silence: fs = filler_size, cut to max_dac_delay - dac_delay
\* (an unsigned subtraction: it wraps to a huge value when dac_delay > max_dac_delay),
\* and to exact_frame_gap when that ends the buffering
SilenceCap(dac) == IF dac > 4410 THEN 4410 ELSE IF 4410 > 4410 - dac THEN 4410 - dac ELSE 4410

EndsBuffering(exact, dac) == exact <= SilenceCap(dac) \/ exact <= frame_size * 2

\* the opportunistic resend: for (i = 8; i < (seq_diff(ab_read, ab_write) / 2); i = i * 2)
ResendOffsets(rd, wr) ==
    LET d == seq_diff(rd, wr, rd)
        half == IF d >= 0 THEN d \div 2 ELSE -((-d) \div 2)
    IN  {i \in {8, 16, 32, 64, 128, 256, 512, 1024, 2048, 4096, 8192, 16384} : i < half}

RECURSIVE SetToSeq(_)
\* a finite set of integers as the ascending sequence of its elements
SetToSeq(S) ==
    IF S = {} THEN <<>>
    ELSE LET m == CHOOSE x \in S : \A y \in S : x <= y
         IN  <<m>> \o SetToSeq(S \ {m})

\* the rtp_request_resend(next, 1) calls of the opportunistic resend, in order
LastChanceResends(buf, rd, wr) ==
    LET missing == {i \in ResendOffsets(rd, wr) : ~Slot(buf, BUFIDX(seq_sum(rd, i))).ready}
        offs == SetToSeq(missing)
    IN  [k \in 1 .. Len(offs) |-> <<seq_sum(rd, offs[k]), 1>>]

\* buffer_get_frame from "curframe = audio_buffer + BUFIDX(ab_read)" after the drain
\* to the timed wait or the return.  ref1 and ref2 are what the two calls of
\* get_reference_timestamp_stuff report, dac what config.output->delay() reports.
get_frame_decide(ref1, ref2, dac) ==
    /\ pc = "decide"
    /\ LET cur == HeadSlot(audio_buffer, ab_read)
           buffering == ab_synced /\ cur.ready /\ ab_buffering
           \* the very first packet, with a reference time
           first == buffering /\ first_packet_timestamp = Zero32 /\ ref1.ts # Zero32
           fpt == IF first THEN cur.timestamp ELSE first_packet_timestamp
           fpttp == IF first THEN FirstPacketTimeToPlay(cur.timestamp, ref1)
                    ELSE first_packet_time_to_play
           late == first /\ TimeReached(now, fpttp)
           timing == buffering /\ fpttp # W(0)
           exact == WToInt(WSub(fpttp, W(now))) - DacDelay(dac)
           past == timing /\ (TimeReached(now, fpttp) \/ exact <= 0)
           ends == timing /\ ~past /\ EndsBuffering(exact, DacDelay(dac))
           synced1 == ab_synced /\ ~past
           buffering1 == IF past THEN TRUE ELSE IF ends THEN FALSE ELSE ab_buffering
           buf1 == IF past THEN ab_resync(audio_buffer) ELSE audio_buffer
           cur1 == HeadSlot(buf1, ab_read)
           \* the play decision
           due == /\ synced1 /\ cur1.ready /\ cur1.timestamp # Zero32
                  /\ ref2.ts # Zero32
                  /\ TimeReached(now, TimeToPlay(cur1.timestamp, ref2))
           wait == (buffering1 \/ ~due \/ ~synced1) /\ ~please_stop
           returns == ~wait /\ ~please_stop
           filler == ~cur1.ready
           resends == IF buffering1 THEN <<>>
                      ELSE LastChanceResends(buf1, ab_read, ab_write)
           taken == IF filler
                    THEN [cur1 EXCEPT !.ready = FALSE, !.timestamp = Zero32,
                                      !.data = <<"zero">>]
                    ELSE [cur1 EXCEPT !.ready = FALSE]
       IN  /\ access_log' =
                  [access_log EXCEPT
                      !.scheduler =
                          Log(SchedulerHeld,
                              <<Read("ab_read"), Read("slot")>>
                              \o (IF late THEN player_flush_trace ELSE <<>>)
                              \o (IF past THEN <<Write("slot")>> ELSE <<>>)
                              \o (IF returns
                                  THEN <<Read("ab_write"), Write("slot"), Write("ab_read")>>
                                  ELSE <<>>)
                              \o <<Unlock("ab_mutex")>>)]
           /\ first_packet_timestamp' = IF past THEN Zero32 ELSE fpt
           /\ first_packet_time_to_play' = IF past THEN W(0) ELSE fpttp
           /\ flush_requested' = (flush_requested \/ late)
           /\ flush_rtp_timestamp' = IF late THEN Add32(fpt, 4410) ELSE flush_rtp_timestamp
           /\ flush_boundary' = IF late THEN Add32(fpt, 4410) ELSE flush_boundary
           /\ ab_synced' = synced1
           /\ ab_buffering' = buffering1
           /\ last_seqno_read' = IF past THEN -1 ELSE last_seqno_read
           /\ IF returns
              THEN /\ pc' = "play"
                   /\ inframe' = BUFIDX(ab_read)
                   /\ audio_buffer' = Store(buf1, BUFIDX(ab_read), taken)
                   /\ ab_read' = SUCCESSOR(ab_read)
                   /\ missing_packets' = IF filler THEN missing_packets + 1
                                         ELSE missing_packets
                   /\ resend_out' = resends
                   /\ resend_requests' = resend_requests + Len(resends)
                   /\ run_last' = IF filler THEN run_last ELSE cur1.sequence_number
              ELSE /\ pc' = IF wait THEN "waiting" ELSE "idle"
                   /\ inframe' = -1
                   /\ audio_buffer' = buf1
                   /\ run_last' = IF past THEN -1 ELSE run_last
                   /\ UNCHANGED <<ab_read, missing_packets, resend_out, resend_requests>>
    /\ UNCHANGED <<filter_at_put, number_of_statistics, last_play, auxvars,
                   ab_write, time_of_last_audio_packet, shutdown_requested,
                   connection_state_to_output, please_stop, packet_count, late_seqno, late_packets,
                   too_late_packets, sync_error_out_of_bounds, flush_limit, now,
                   shutdown_calls, flush_calls>>

----------------------------------------------------------------------------
(* player_thread_func with the frame buffer_get_frame returned *)

\* sync_error = td_in_frames + rt - (nt - current_delay) - config.latency
SyncError(ts, ref, delay) ==
    WAdd(W(now - ref.time), WAdd(WSub(ref.ts, ts), W(delay - config.latency)))

\* a faulty test: the error is held against the tolerance of the stuffing
OutOfBounds_Tolerance(err) ==
    \/ WLeq(W(config.tolerance + 1), err)
    \/ WLeq(err, W(-(config.tolerance + 1)))

\* abs(sync_error) > config.resyncthreshold
OutOfBounds(err) ==
    \/ WLeq(W(config.resyncthreshold + 1), err)
    \/ WLeq(err, W(-(config.resyncthreshold + 1)))

\* a faulty test: no frame is taken for a supplied silent frame
SilentFrame_Missing(frame) == FALSE

\* "if (inframe->timestamp == 0)": a supplied silent frame
SilentFrame(frame) == frame.timestamp = Zero32

\* amount_to_stuff before the rate limit: -1 or 1 when sync_error is beyond the
\* tolerance, 0 when the DAC queue is shorter than DAC_BUFFER_QUEUE_MINIMUM_LENGTH
StuffWanted(err, current_delay) ==
    IF current_delay < DAC_BUFFER_QUEUE_MINIMUM_LENGTH THEN 0
    ELSE IF WLeq(err, W(-(config.tolerance + 1))) THEN 1
    ELSE IF WLeq(W(config.tolerance + 1), err) THEN -1
    ELSE 0

\* whole seconds since first_packet_time_to_play
SecondsPlayed == WToInt(WSub(W(now), first_packet_time_to_play)) \div 44100

\* a faulty rate limit: none
StuffAllowed_NoWait(wanted, rnd) == wanted

\* amount_to_stuff after the rate limit: none in the first five seconds, about one in
\* three until thirty seconds (rnd: random() % 1000 > 352)
StuffAllowed(wanted, rnd) ==
    IF wanted = 0 \/ first_packet_time_to_play = W(0)
       \/ ~TimeReached(now, first_packet_time_to_play)
    THEN wanted
    ELSE IF SecondsPlayed < 5 THEN 0
    ELSE IF SecondsPlayed < 30 /\ rnd THEN 0
    ELSE wanted

\* The body of the loop from "if (inframe)" to the device play and the loss-of-sync
\* test.  The slot is read through the pointer, without ab_mutex.
thread_play(ref, dac) ==
    /\ pc = "play"
    /\ LET frame == Slot(audio_buffer, inframe)
           silent == SilentFrame(frame)
           err == SyncError(frame.timestamp, ref, DacDelay(dac))
           bad == /\ config.output_has_delay /\ ~silent /\ ~please_stop
                  /\ config.resyncthreshold # 0 /\ OutOfBounds(err)
           lost == bad /\ sync_error_out_of_bounds + 1 > 3
           wanted == IF config.output_has_delay THEN StuffWanted(err, DacDelay(dac)) ELSE 0
       IN  /\ \E rnd \in BOOLEAN :
                  last_play' =
                      IF silent
                      THEN [samples |-> frame_size, stuffing |-> FALSE, amount_to_stuff |-> 0]
                      ELSE [samples |-> frame_size + StuffAllowed(wanted, rnd),
                            stuffing |-> TRUE,
                            amount_to_stuff |-> StuffAllowed(wanted, rnd)]
           /\ number_of_statistics' =
                  IF silent THEN number_of_statistics ELSE number_of_statistics + 1
           /\ access_log' =
                  [access_log EXCEPT
                      !.scheduler =
                          Log(SchedulerHeld,
                              <<Read("slot")>>
                              \o (IF silent THEN <<>>
                                  ELSE <<Read("ab_read"), Read("ab_write")>>)
                              \o (IF lost THEN player_flush_trace ELSE <<>>))]
           /\ pc' = IF silent THEN "idle" ELSE "mark_ts"
           /\ inframe' = IF silent THEN -1 ELSE inframe
           /\ last_seqno_read' = IF silent THEN SUCCESSOR(last_seqno_read)
                                 ELSE frame.sequence_number
           /\ sync_error_out_of_bounds' =
                  IF silent \/ ~config.output_has_delay THEN sync_error_out_of_bounds
                  ELSE IF bad /\ ~lost THEN sync_error_out_of_bounds + 1
                  ELSE 0
           /\ flush_requested' = (flush_requested \/ lost)
           /\ flush_rtp_timestamp' = IF lost THEN frame.timestamp ELSE flush_rtp_timestamp
           /\ flush_boundary' = IF lost THEN frame.timestamp ELSE flush_boundary
    /\ UNCHANGED <<filter_at_put, auxvars,
                   ringvars, startvars, time_of_last_audio_packet, shutdown_requested,
                   connection_state_to_output, please_stop, packet_count, late_seqno, statvars,
                   flush_limit, now, resend_out, shutdown_calls, flush_calls, run_last>>

\* "mark the frame as finished": inframe->timestamp = 0, without ab_mutex
thread_mark_timestamp ==
    /\ pc = "mark_ts"
    /\ pc' = "mark_seq"
    /\ access_log' = [access_log EXCEPT !.scheduler = Log(SchedulerHeld, <<Write("slot")>>)]
    /\ audio_buffer' = Store(audio_buffer, inframe,
                             [Slot(audio_buffer, inframe) EXCEPT !.timestamp = Zero32])
    /\ UNCHANGED <<filter_at_put, number_of_statistics, last_play, auxvars,
                   ab_read, ab_write, ab_synced, ab_buffering, startvars, flushvars,
                   time_of_last_audio_packet, shutdown_requested,
                   connection_state_to_output, please_stop, packet_count, late_seqno, statvars,
                   last_seqno_read, sync_error_out_of_bounds, inframe, flush_limit, now,
                   resend_out, shutdown_calls, flush_calls, run_last>>

\* inframe->sequence_number = 0, without ab_mutex
thread_mark_sequence_number ==
    /\ pc = "mark_seq"
    /\ pc' = "idle"
    /\ access_log' = [access_log EXCEPT !.scheduler = Log(SchedulerHeld, <<Write("slot")>>)]
    /\ inframe' = -1
    /\ audio_buffer' = Store(audio_buffer, inframe,
                             [Slot(audio_buffer, inframe) EXCEPT !.sequence_number = 0])
    /\ UNCHANGED <<filter_at_put, number_of_statistics, last_play, auxvars,
                   ab_read, ab_write, ab_synced, ab_buffering, startvars, flushvars,
                   time_of_last_audio_packet, shutdown_requested,
                   connection_state_to_output, please_stop, packet_count, late_seqno, statvars,
                   last_seqno_read, sync_error_out_of_bounds, flush_limit, now,
                   resend_out, shutdown_calls, flush_calls, run_last>>

----------------------------------------------------------------------------
(* The system *)

\* the producer in the runs without a flush by the control thread
PutPacket ==
    \E d \in SeqOffsets : player_put_packet(seq_sum(ab_write, d), PacketTs)

\* the producer in the runs with a flush by the control thread
PutPacketAroundFlush ==
    \E d \in FlushSeqOffsets, ts \in TsInputs : player_put_packet(seq_sum(ab_write, d), ts)

Flush == player_flush(FlushTs)

\* the scheduler thread with the output requested on
ThreadStart == thread_start(TRUE)

GetFrameTop == get_frame_top(TRUE)

GetFrameDecide ==
    \E ref1 \in RefInputs, ref2 \in RefInputs, dac \in DacDelays :
        get_frame_decide(ref1, ref2, dac)

ThreadPlay == \E ref \in RefInputs, dac \in DacDelays : thread_play(ref, dac)

\* producer, scheduler thread and clock
Next ==
    \/ PutPacket
    \/ TimePasses
    \/ ThreadStart
    \/ GetFrameTop
    \/ get_frame_drain
    \/ GetFrameDecide
    \/ ThreadPlay
    \/ thread_mark_timestamp
    \/ thread_mark_sequence_number

Spec == Init /\ [][Next]_vars

\* producer, scheduler thread, clock and the control thread's player_flush and
\* player_stop
NextFlush ==
    \/ PutPacketAroundFlush
    \/ Flush
    \/ player_stop
    \/ TimePasses
    \/ ThreadStart
    \/ thread_exit
    \/ GetFrameTop
    \/ get_frame_drain
    \/ GetFrameDecide
    \/ ThreadPlay
    \/ thread_mark_timestamp
    \/ thread_mark_sequence_number

SpecFlush == Init /\ [][NextFlush]_vars

\* the scheduler thread with a reference time from the sync packets at every call
GetFrameDecideLocked == get_frame_decide(RefLocked, RefLocked, 0)

ThreadPlayLocked == thread_play(RefLocked, 0)

Scheduler ==
    \/ ThreadStart
    \/ GetFrameTop
    \/ get_frame_drain
    \/ GetFrameDecideLocked
    \/ ThreadPlayLocked
    \/ thread_mark_timestamp
    \/ thread_mark_sequence_number

NextLive ==
    \/ PutPacket
    \/ TimePasses
    \/ Scheduler

\* a step of the scheduler thread, the only thread that moves pc
SchedulerStep ==
    /\ pc' \in {"idle", "drain", "decide", "waiting", "play", "mark_ts", "mark_seq"}
    /\ pc' # pc

\* The scheduler thread keeps taking steps (its wait is a timed wait of four thirds of
\* a packet time, and player_thread_func calls buffer_get_frame again after every
\* frame) and the clock keeps moving.
SpecLive == Init /\ [][NextLive]_vars /\ WF_pc(SchedulerStep) /\ WF_vars(TimePasses)

----------------------------------------------------------------------------
(* The ring: cursors and slots *)

\* the number of sequence numbers in [rd, wr), counted modulo 2^16
WrapDistance(rd, wr) == (wr - rd) % SEQ_MOD

\* b follows a in 16-bit wrap order
SeqAfter(a, b) == (b - a) % SEQ_MOD \in 1 .. 32767

\* the ring index j is the index of some sequence number of [ab_read, ab_write)
InWindow(j) ==
    \/ WrapDistance(ab_read, ab_write) >= BUFFER_FRAMES
    \/ (j - ab_read) % BUFFER_FRAMES < WrapDistance(ab_read, ab_write)

\* C3: once the ring is synced, the wrap distance from ab_read to ab_write is at most
\* BUFFER_FRAMES, whatever packets were put and however many frames were taken.
C3_RingCapacity == ab_synced => WrapDistance(ab_read, ab_write) <= BUFFER_FRAMES

\* C4: while the ring is synced, ab_read is not after ab_write in the ordinate order:
\* seq_diff(ab_read, ab_write) >= 0.
C4_ReadNotAfterWrite == ab_synced => seq_diff(ab_read, ab_write, ab_read) >= 0

\* C6: every ready slot holds the timestamp and the sequence number of the packet that
\* was decoded into it by the latest put_packet that selected it.
C6_ReadySlotHoldsItsPacket ==
    \A j \in DOMAIN audio_buffer :
        audio_buffer[j].ready =>
            audio_buffer[j].data =
                <<"pcm", audio_buffer[j].sequence_number, audio_buffer[j].timestamp>>

\* C7: for every sequence number i of [ab_read, ab_write), a ready slot ring[i mod N]
\* stores a sequence number that equals i modulo N.
C7_ReadySlotInPlace ==
    \A j \in DOMAIN audio_buffer :
        (audio_buffer[j].ready /\ InWindow(j)) =>
            audio_buffer[j].sequence_number % BUFFER_FRAMES = j

----------------------------------------------------------------------------
(* player_put_packet, branch by branch *)

\* the slot of index j is the same before and after the step
SlotKept(j) == Slot(audio_buffer', j) = Slot(audio_buffer, j)

\* every slot but the one of index i is the same before and after the step (a slot
\* outside both domains is the empty slot before and after)
OtherSlotsKept(i) ==
    \A j \in (DOMAIN audio_buffer \cup DOMAIN audio_buffer') \ {i} : SlotKept(j)

\* after the step the slot of seq is ready and holds the packet
Placed(seq, ts) ==
    Slot(audio_buffer', seq % BUFFER_FRAMES) =
        [ready |-> TRUE, timestamp |-> ts, sequence_number |-> seq,
         data |-> <<"pcm", seq, ts>>]

\* the step is a call of player_put_packet
PutStep == packet_count' = packet_count + 1

\* the step is a call of player_put_packet(seq, ts) that reaches the classification
Classified(seq, ts) ==
    /\ connection_state_to_output
    /\ ~PutFiltered(ts)
    /\ player_put_packet(seq, ts)

ExpectedEffect(seq, ts) ==
    /\ Placed(seq, ts)
    /\ ab_write' = (seq + 1) % SEQ_MOD
    /\ ab_read' = IF ab_synced THEN ab_read ELSE seq
    /\ OtherSlotsKept(seq % BUFFER_FRAMES)
    /\ resend_out' = <<>>
    /\ resend_requests' = resend_requests

\* C8: with the output connected and the packet not filtered, a packet with
\* seq = ab_write (or any packet while the ring is not synced, both cursors being set
\* to seq first) is decoded into ring[seq mod N], ready with ts and seq; ab_write
\* advances by exactly one modulo 2^16; ab_read and every other slot are unchanged and
\* no resend is requested.
C8_ExpectedPacket ==
    [][PutStep =>
           \A d \in SeqOffsets :
               LET seq == (ab_write + d) % SEQ_MOD
               IN  ((seq = ab_write \/ ~ab_synced) /\ Classified(seq, PacketTs))
                       => ExpectedEffect(seq, PacketTs)]_vars

\* a state after an expected packet was put behind another: two neighbouring ready slots
\* with consecutive sequence numbers below ab_write, and no resend requested
C8_Witness ==
    /\ ab_synced
    /\ resend_out = <<>>
    /\ resend_requests = 0
    /\ packet_count = 2
    /\ WrapDistance(ab_read, ab_write) = 2
    /\ Slot(audio_buffer, BUFIDX(ab_read)).ready
    /\ Slot(audio_buffer, BUFIDX(ab_read)).sequence_number = ab_read
    /\ Slot(audio_buffer, BUFIDX(ab_read + 1)).ready
    /\ Slot(audio_buffer, BUFIDX(ab_read + 1)).sequence_number = (ab_read + 1) % SEQ_MOD

GapEffect(seq, g, ts) ==
    /\ resend_out' = <<<<ab_write, g>>>>
    /\ resend_requests' = resend_requests + 1
    /\ \A k \in 0 .. g - 1 :
           ~Slot(audio_buffer', ((ab_write + k) % SEQ_MOD) % BUFFER_FRAMES).ready
    /\ Placed(seq, ts)
    /\ ab_write' = (seq + 1) % SEQ_MOD

\* C9: a packet g sequence numbers ahead of ab_write, 1 <= g <= N - 1, whatever
\* ab_write is: exactly one resend request (ab_write, g), every slot of
\* [ab_write, pred(seq)] not ready, the packet ready in ring[seq mod N], and
\* ab_write = succ(seq).
C9_GapPacket ==
    [][PutStep =>
           \A g \in {d \in SeqOffsets : 1 <= d /\ d <= BUFFER_FRAMES - 1} :
               LET seq == (ab_write + g) % SEQ_MOD
               IN  (ab_synced /\ Classified(seq, PacketTs))
                       => GapEffect(seq, g, PacketTs)]_vars

LateEffect(seq, ts) ==
    /\ Placed(seq, ts)
    /\ late_packets' = late_packets + 1
    /\ ab_read' = ab_read
    /\ ab_write' = ab_write
    /\ OtherSlotsKept(seq % BUFFER_FRAMES)

\* the effect of a late packet on the ring: a packet with seq after ab_read and before
\* ab_write is decoded into ring[seq mod N], ready with its ts and seq; late_packets
\* grows by one; ab_read, ab_write and all other slots are unchanged
LatePacketStored ==
    [][PutStep =>
           \A d \in SeqOffsets :
               LET seq == (ab_write + d) % SEQ_MOD
               IN  (/\ ab_synced
                    /\ seq_order(ab_read, seq, ab_read)
                    /\ seq_order(seq, ab_write, ab_read)
                    /\ Classified(seq, PacketTs))
                       => LateEffect(seq, PacketTs)]_vars

\* the latest late packet is in its slot, waiting for the reader
LateWaiting ==
    /\ late_seqno # -1
    /\ ab_synced
    /\ Slot(audio_buffer, BUFIDX(late_seqno)).ready
    /\ Slot(audio_buffer, BUFIDX(late_seqno)).sequence_number = late_seqno

\* buffer_get_frame has returned the late packet as a real frame
LateReturned == late_seqno # -1 /\ run_last = late_seqno

\* the late packet left the ring another way: a resync, the flush filter, or a later
\* packet put into its slot
LateGone == ~LateWaiting

\* C10: a packet with seq after ab_read and before ab_write is stored as
\* LatePacketStored says, and the scheduler later returns it as a real frame.
C10_LatePacket == LatePacketStored /\ (LateWaiting ~> (LateReturned \/ LateGone))

----------------------------------------------------------------------------
(* buffer_get_frame: what it returns *)

\* the step is a return of buffer_get_frame with a frame
Returns == pc = "decide" /\ pc' = "play"

\* the frame a returning step hands to player_thread_func
Returned == Slot(audio_buffer', inframe')

\* C2: between two resyncs the returned frames follow ab_read order: the returned frame
\* is the slot at the current ab_read, and the sequence number of a returned real frame
\* is after that of the real frame returned before it, in 16-bit wrap order.
C2_ReadOrder ==
    [][Returns =>
           /\ inframe' = ab_read % BUFFER_FRAMES
           /\ (Returned.data # <<"zero">> /\ run_last # -1)
                  => SeqAfter(run_last, Returned.sequence_number)]_vars

\* some ready frame of the ring has reached its time to play
LaterFrameDue ==
    \E j \in DOMAIN audio_buffer :
        /\ audio_buffer[j].ready
        /\ audio_buffer[j].timestamp # Zero32
        /\ TimeReached(now, TimeToPlay(audio_buffer[j].timestamp, RefLocked))

\* the step returns a filler for the head: zeroed PCM, timestamp 0, missing_packets
\* one more, ab_read one further
FillerReturned ==
    /\ Returns
    /\ inframe' = ab_read % BUFFER_FRAMES
    /\ Returned.data = <<"zero">>
    /\ Returned.timestamp = Zero32
    /\ missing_packets' = missing_packets + 1
    /\ ab_read' = (ab_read + 1) % SEQ_MOD

\* C5: the ring is synced, buffering is over, the head packet is missing and a packet
\* that arrived after it is due: buffer_get_frame, run with a locked reference time,
\* returns a filler for the head.
C5_FillerForMissingHead ==
    [][(/\ get_frame_decide(RefLocked, RefLocked, 0)
        /\ ab_synced
        /\ ~ab_buffering
        /\ ~please_stop
        /\ ~HeadSlot(audio_buffer, ab_read).ready
        /\ WrapDistance(ab_read, ab_write) \in 2 .. BUFFER_FRAMES
        /\ LaterFrameDue)
           => FillerReturned]_vars

----------------------------------------------------------------------------
(* Flush *)

\* timestamp ts is the boundary T or before it in 32-bit wrap order
AtOrBefore(ts, T) == ts = T \/ Sub32(T, ts)[1] < 32768

\* C1: once player_flush(T) has returned, T # 0, buffer_get_frame returns no frame whose
\* timestamp is T or before T in 32-bit wrap order, until a later flush changes the
\* boundary.
C1_NothingAtOrBeforeFlush ==
    [][(Returns /\ flush_boundary # Zero32 /\ Returned.data # <<"zero">>)
           => ~AtOrBefore(Returned.timestamp, flush_boundary)]_vars

----------------------------------------------------------------------------
(* The flush filter in player_put_packet *)

\* the timestamps the control thread flushes to in the runs about the filter: one in
\* the middle of the range and the largest, whose successor wraps to 0
FlushTimestamps == {FlushTs, <<SEQ_MOD - 1, SEQ_MOD - 1>>}

\* the packets offered in the runs about the filter, as <<distance of the sequence
\* number from ab_write, distance of the timestamp from the one the stream is at>>: the
\* expected packet timed just before, at and just after it, and a packet after a gap
\* of one timed just after it
FilterPackets == {<<0, -1>>, <<0, 0>>, <<0, 1>>, <<1, 1>>}

\* the timestamp the stream is at: that of the latest flush, FlushTs before any
StreamTs == IF flush_boundary # Zero32 THEN flush_boundary ELSE FlushTs

\* the producer in the runs about the filter: packets timed just before, at and just
\* after the timestamp the stream is at
PutPacketAroundFilter ==
    \E p \in FilterPackets :
        player_put_packet(seq_sum(ab_write, p[1]), Add32(StreamTs, p[2]))

FlushAny == \E T \in FlushTimestamps : player_flush(T)

\* producer, control thread's player_flush and the scheduler thread in buffer_get_frame
\* with a locked reference time, before the clock reaches the first packet's time to
\* play
NextFilter ==
    \/ PutPacketAroundFilter
    \/ FlushAny
    \/ ThreadStart
    \/ GetFrameTop
    \/ get_frame_drain
    \/ GetFrameDecideLocked

SpecFilter == Init /\ [][NextFilter]_vars

\* timestamp ts is strictly after the boundary T in 32-bit wrap order
StrictlyAfter(ts, T) == ts # T /\ Sub32(ts, T)[1] < 32768

\* the packet is dropped: no slot, neither cursor, not ab_synced and not the filter
\* changes
DroppedEffect == UNCHANGED <<audio_buffer, ab_read, ab_write, ab_synced, flush_rtp_timestamp>>

\* the packet is processed as a packet is without a filter, and the filter is cleared
AcceptedEffect(seq, d, ts) ==
    /\ flush_rtp_timestamp' = Zero32
    /\ ab_synced'
    /\ (d = 0 \/ ~ab_synced) => ExpectedEffect(seq, ts)
    /\ (d = 1 /\ ab_synced) => GapEffect(seq, 1, ts)

\* what a call of player_put_packet does when the filter is active; connected says
\* whether the claim is made for a connected output only
FilterEffect(connected) ==
    PutStep =>
        \A p \in FilterPackets :
            LET d == p[1]
                seq == (ab_write + d) % SEQ_MOD
                ts == Add32(StreamTs, p[2])
            IN  (flush_rtp_timestamp # Zero32 /\ player_put_packet(seq, ts)) =>
                    /\ AtOrBefore(ts, flush_rtp_timestamp) => DroppedEffect
                    /\ (StrictlyAfter(ts, flush_rtp_timestamp)
                        /\ (connected => connection_state_to_output))
                           => AcceptedEffect(seq, d, ts)

\* C11 as stated: with the flush filter active at T # 0, a packet with ts = T or before
\* T is dropped, changing no slot, neither cursor, not ab_synced and not the filter; a
\* packet with ts strictly after T is accepted, processed normally and sets the filter
\* back to 0.
C11_FilterWhateverTheOutput == [][FilterEffect(FALSE)]_vars

\* C11, for a connected output: with connection_state_to_output true and the flush
\* filter active at T # 0, a packet with ts = T or before T is dropped, changing no
\* slot, neither cursor, not ab_synced and not the filter; a packet with ts strictly
\* after T is accepted, processed normally and sets the filter back to 0.
C11_FlushFilter == [][FilterEffect(TRUE)]_vars

\* the latest packet met the filter of the latest flush, was timed just after it, has
\* cleared the filter and is in the ring
C11_Witness ==
    /\ flush_boundary # Zero32
    /\ filter_at_put = flush_boundary
    /\ flush_rtp_timestamp = Zero32
    /\ connection_state_to_output
    /\ ab_synced
    /\ \E j \in DOMAIN audio_buffer :
           /\ audio_buffer[j].ready
           /\ audio_buffer[j].timestamp = Add32(flush_boundary, 1)

----------------------------------------------------------------------------
(* player_thread_func and the frames with timestamp 0 *)

\* the sequence numbers offered in the runs about the played frames, as distances from
\* ab_write: the expected packet, and a packet a whole ring ahead, whose gap loop
\* clears every slot
PlaySeqOffsets == {0, BUFFER_FRAMES}

PutPacketPlay ==
    \E d \in PlaySeqOffsets : player_put_packet(seq_sum(ab_write, d), PacketTs)

\* what config.output->delay() reports to player_thread_func: an empty queue, and the
\* desired length of the queue
PlayDacDelays == {0, DefaultConfig.audio_backend_buffer_desired_length}

ThreadPlayDac == \E dac \in PlayDacDelays : thread_play(RefLocked, dac)

NextPlay ==
    \/ PutPacketPlay
    \/ TimePasses
    \/ ThreadStart
    \/ GetFrameTop
    \/ get_frame_drain
    \/ GetFrameDecideLocked
    \/ ThreadPlayDac
    \/ thread_mark_timestamp
    \/ thread_mark_sequence_number

SpecPlay == Init /\ [][NextPlay]_vars

\* the step is player_thread_func's handling of the frame buffer_get_frame returned
PlayStep == pc = "play" /\ pc' # "play"

\* C12: a frame whose timestamp is 0 when the scheduler thread takes it is played
\* verbatim with exactly frame_size frames, no amount_to_stuff is computed for it, no
\* sync_error sample is recorded, and the count of consecutive out-of-sync frames is
\* neither incremented nor reset.
C12_FillerNotCorrected ==
    [][(PlayStep /\ Slot(audio_buffer, inframe).timestamp = Zero32) =>
           /\ last_play' = [samples |-> frame_size, stuffing |-> FALSE, amount_to_stuff |-> 0]
           /\ number_of_statistics' = number_of_statistics
           /\ sync_error_out_of_bounds' = sync_error_out_of_bounds]_vars

\* a frame with timestamp 0 has been played after a frame that was out of sync: a
\* sample and an out-of-sync frame are counted, and the latest play was without stuffing
C12_Witness ==
    /\ pc = "idle"
    /\ ~last_play.stuffing
    /\ last_play.samples = frame_size
    /\ number_of_statistics = 1
    /\ sync_error_out_of_bounds = 1

----------------------------------------------------------------------------
(* player_stop and the end of the scheduler thread *)

\* producer, clock, the control thread's player_flush and player_stop, and the
\* scheduler thread with a reference time at every call
NextStop ==
    \/ PutPacketAroundFlush
    \/ Flush
    \/ player_stop
    \/ TimePasses
    \/ thread_exit
    \/ Scheduler

\* the drain loop of buffer_get_frame meets a head slot that is not ready while the
\* filter is active: its next pass changes nothing and its test sends it round again
Spinning ==
    /\ pc = "drain"
    /\ ab_synced
    /\ flush_rtp_timestamp # Zero32
    /\ flush_limit <= FLUSH_LIMIT
    /\ ~HeadSlot(audio_buffer, ab_read).ready

\* the scheduler thread runs and is about to move on in its code
Running == pc # "stopped" /\ ~Spinning

\* a step of the scheduler thread that moves it on, its end included
ThreadStep ==
    /\ pc' \in {"idle", "drain", "decide", "waiting", "play", "mark_ts", "mark_seq", "stopped"}
    /\ pc' # pc

\* The scheduler thread keeps running until it ends: its wait is a timed wait of four
\* thirds of a packet time, and a thread that is not waiting executes its next
\* instruction.  Nothing is assumed of a loop that goes round without moving on.
SpecStop == Init /\ [][NextStop]_vars /\ WF_pc(Running /\ ThreadStep)

\* C13: once player_stop has set please_stop and signalled flowcontrol,
\* buffer_get_frame returns no frame any more and the scheduler thread eventually
\* leaves its loop and ends, so that player_stop's join completes.
C13_StopEndsThread ==
    /\ [][please_stop => ~Returns]_vars
    /\ please_stop ~> (pc = "stopped")

----------------------------------------------------------------------------
(* The timeout of buffer_get_frame and rtsp_request_shutdown_stream *)

\* the instant at which a packet that arrived at the first instant is played, and
\* instants around config.timeout seconds after the first one: one frame period short
\* of the timeout, the timeout exactly, and a further timeout later
TimeoutInstants ==
    {131300,
     44100 + DefaultConfig.timeout * 44100 - 1,
     44100 + DefaultConfig.timeout * 44100,
     44100 + 2 * DefaultConfig.timeout * 44100}

\* A long silence.  The clock is taken to move while the scheduler thread is not yet
\* running, is in its timed wait, or has ended: a pass of buffer_get_frame's loop reads
\* the clock once at its top, and a pass and the playing of a frame take far less than
\* a second.
SilencePasses ==
    /\ pc \in {"start", "idle", "waiting", "stopped"}
    /\ \E t \in TimeoutInstants : t > now /\ now' = t
    /\ UNCHANGED <<filter_at_put, number_of_statistics, last_play, access_log, auxvars,
                   ringvars, startvars, flushvars, time_of_last_audio_packet,
                   shutdown_requested, connection_state_to_output, please_stop,
                   packet_count, late_seqno, statvars, threadvars, resend_out, shutdown_calls,
                   flush_calls, run_last>>

\* the producer sending the packet the ring expects
PutPacketInOrder == player_put_packet(ab_write, PacketTs)

\* producer, long silences, the scheduler thread, and the control thread's player_stop
\* and player_play
NextTimeout ==
    \/ PutPacketInOrder
    \/ SilencePasses
    \/ player_stop
    \/ thread_exit
    \/ player_play
    \/ Scheduler

SpecTimeout == Init /\ [][NextTimeout]_vars

\* the step calls rtsp_request_shutdown_stream
ShutdownCalled == shutdown_calls' # shutdown_calls /\ sessions' = sessions

\* C14: within one play session rtsp_request_shutdown_stream is called at most once,
\* and only in a pass of buffer_get_frame's loop at which at least config.timeout
\* seconds have gone by since the latest packet arrived; packets that arrive after the
\* call do not lead to another one.
C14_ShutdownOnce ==
    [][ShutdownCalled =>
           /\ shutdown_calls = 0
           /\ shutdown_calls' = 1
           /\ last_arrival # 0
           /\ now - last_arrival >= config.timeout * 44100]_vars

\* the hook was called at the timeout after the first packet, another packet arrived,
\* and buffer_get_frame has made its timeout test a further timeout later: still one call
C14_Witness ==
    /\ pc = "drain"
    /\ shutdown_calls = 1
    /\ shutdown_requested
    /\ shutdown_at = 44100 + DefaultConfig.timeout * 44100
    /\ last_arrival = 44100 + DefaultConfig.timeout * 44100
    /\ now = 44100 + 2 * DefaultConfig.timeout * 44100

----------------------------------------------------------------------------
(* config.timeout = 0 *)

\* configurations with a timeout of 0
NoTimeoutConfigs ==
    {[DefaultConfig EXCEPT !.timeout = 0, !.dont_check_timeout = d] : d \in BOOLEAN}

InitNoTimeout ==
    /\ seq_calc = <<>>
    /\ stuff_calc = <<>>
    /\ calc = <<>>
    /\ \E cfg \in NoTimeoutConfigs : InitWith(cfg)

\* producer, clock and scheduler thread
NextNoTimeout ==
    \/ PutPacketInOrder
    \/ TimePasses
    \/ Scheduler

SpecNoTimeout == InitNoTimeout /\ [][NextNoTimeout]_vars

\* C15: with config.timeout = 0 the timeout check is off: rtsp_request_shutdown_stream
\* is never called, whatever packets have arrived and however long ago.
C15_NoTimeoutNoShutdown == config.timeout = 0 => shutdown_calls = 0

----------------------------------------------------------------------------
(* player_play after an earlier session *)

\* producer, clock, the scheduler thread, and the control thread's player_flush,
\* player_stop and player_play
NextSessions ==
    \/ PutPacketInOrder
    \/ Flush
    \/ TimePasses
    \/ player_stop
    \/ thread_exit
    \/ player_play
    \/ Scheduler

SpecSessions == Init /\ [][NextSessions]_vars

\* player_play has returned and the scheduler thread has just run the code before its
\* loop; no packet has arrived and player_flush has not been called in this session
SessionStarted ==
    /\ pc = "idle"
    /\ access_log.scheduler = Log({}, <<Write("flush_rtp_timestamp")>>)
    /\ last_arrival = 0
    /\ flush_calls = 0

\* C16: once player_play has returned and the scheduler thread has started, and before
\* a packet of the new session arrives, the ring is not synced and is buffering, no
\* slot is ready, no flush is requested, the flush filter is 0, first_packet_timestamp
\* and first_packet_time_to_play are 0 and shutdown_requested is 0; a session that comes
\* after an earlier one included.
C16_PlayResets ==
    SessionStarted =>
        /\ ~ab_synced
        /\ ab_buffering
        /\ \A j \in DOMAIN audio_buffer : ~audio_buffer[j].ready
        /\ ~flush_requested
        /\ flush_rtp_timestamp = Zero32
        /\ first_packet_timestamp = Zero32
        /\ first_packet_time_to_play = W(0)
        /\ ~shutdown_requested

----------------------------------------------------------------------------
(* ab_mutex and flush_mutex *)

Threads == {"producer", "control", "scheduler"}

\* the producer's player_put_packet, the scheduler thread's buffer_get_frame and
\* player_thread_func, the control thread's player_flush and player_stop, and the clock
\* a pass of buffer_get_frame's loop with the output requested off
GetFrameTopOff == get_frame_top(FALSE)

NextLocks ==
    \/ PutPacketInOrder
    \/ Flush
    \/ player_stop
    \/ TimePasses
    \/ thread_exit
    \/ GetFrameTopOff
    \/ Scheduler

SpecLocks == Init /\ [][NextLocks]_vars

\* the operations ops, made by a thread that holds the mutexes of held, take no mutex
\* the thread holds already and do not take ab_mutex while flush_mutex is held
RECURSIVE LockOrderKept(_, _)
LockOrderKept(held, ops) ==
    IF ops = <<>> THEN TRUE
    ELSE LET op == Head(ops)
         IN  IF op[1] = "lock"
             THEN /\ op[2] \notin held
                  /\ op[2] = "ab_mutex" => "flush_mutex" \notin held
                  /\ LockOrderKept(held \cup {op[2]}, Tail(ops))
             ELSE IF op[1] = "unlock"
             THEN LockOrderKept(held \ {op[2]}, Tail(ops))
             ELSE LockOrderKept(held, Tail(ops))

\* C17: the mutexes nest as ab_mutex, then flush_mutex: no thread (producer, scheduler
\* thread, control thread, or the scheduler thread calling player_flush itself) takes
\* ab_mutex while it holds flush_mutex, and no thread takes a mutex it holds.
C17_LockOrder ==
    \A t \in Threads : LockOrderKept(access_log[t].held, access_log[t].ops)

\* buffer_get_frame, holding ab_mutex, has called player_flush for a first packet that is
\* late, and the control thread has called player_flush too
C17_Witness ==
    /\ access_log.scheduler.held = {"ab_mutex"}
    /\ \E i \in DOMAIN access_log.scheduler.ops :
           access_log.scheduler.ops[i] = Lock("flush_mutex")
    /\ \E i \in DOMAIN access_log.scheduler.ops :
           access_log.scheduler.ops[i] = Write("flush_rtp_timestamp")
    /\ access_log.control.ops = player_flush_trace
    /\ please_stop

\* in the operations ops, made by a thread that holds the mutexes of held, every read
\* and write of a variable of X is made while the thread holds mutex m
RECURSIVE GuardedBy(_, _, _, _)
GuardedBy(m, X, held, ops) ==
    IF ops = <<>> THEN TRUE
    ELSE LET op == Head(ops)
         IN  IF op[1] = "lock" THEN GuardedBy(m, X, held \cup {op[2]}, Tail(ops))
             ELSE IF op[1] = "unlock" THEN GuardedBy(m, X, held \ {op[2]}, Tail(ops))
             ELSE (op[2] \in X => m \in held) /\ GuardedBy(m, X, held, Tail(ops))

\* C18: every read and every write of flush_requested and of flush_rtp_timestamp is made
\* by a thread that holds flush_mutex: in player_flush, in player_put_packet's filter
\* test and clearing, in buffer_get_frame's flush application and drain, and where the
\* scheduler thread starts.
C18_FlushStateUnderFlushMutex ==
    \A t \in Threads :
        GuardedBy("flush_mutex", {"flush_requested", "flush_rtp_timestamp"},
                  access_log[t].held, access_log[t].ops)

\* every access of a slot's fields and of ab_read and ab_write is made while holding
\* ab_mutex
RingUnderAbMutex ==
    \A t \in Threads :
        GuardedBy("ab_mutex", {"slot", "ab_read", "ab_write"},
                  access_log[t].held, access_log[t].ops)

\* player_put_packet leaves alone the slot buffer_get_frame returned, as long as
\* player_thread_func has not finished with it
ReturnedSlotKept ==
    (PutStep /\ pc \in {"play", "mark_ts", "mark_seq"}) => SlotKept(inframe)

\* C19: every access of a slot's fields and of ab_read and ab_write is made while
\* holding ab_mutex, and player_put_packet writes nothing to a slot between the moment
\* buffer_get_frame returned it and the moment player_thread_func has finished reading
\* and updating it.
C19_RingUnderAbMutex == []RingUnderAbMutex /\ [][ReturnedSlotKept]_vars

----------------------------------------------------------------------------
(* seq_diff of a sequence number and its successor *)

\* values of ab_read, the anchor of ORDINATE
SeqAnchors == {0, 1, BUFFER_FRAMES - 1, BUFFER_FRAMES, 32766, 32767, 32768, SEQ_MOD - 2,
               SEQ_MOD - 1}

\* distances of the sequence number from the anchor
SeqDistances == {0, 1, BUFFER_FRAMES - 1, BUFFER_FRAMES, 32765, 32766, 32767, 32768, 32769,
                 SEQ_MOD - BUFFER_FRAMES, SEQ_MOD - 2, SEQ_MOD - 1}

\* a sequence number a and a value of ab_read, no result yet
InitSeq ==
    /\ InitWith(DefaultConfig)
    /\ stuff_calc = <<>>
    /\ calc = <<>>
    /\ seq_calc \in {[a |-> seq_sum(r, d), anchor |-> r, done |-> FALSE, diff |-> 0] :
                         r \in SeqAnchors, d \in SeqDistances}

\* seq_diff(a, SUCCESSOR(a)) with ab_read at the anchor
successor_diff ==
    /\ ~seq_calc.done
    /\ seq_calc' = [seq_calc EXCEPT
                        !.done = TRUE,
                        !.diff = seq_diff(seq_calc.a, SUCCESSOR(seq_calc.a), seq_calc.anchor)]
    /\ UNCHANGED <<filter_at_put, number_of_statistics, last_play, access_log, config,
                   sessions, last_arrival, shutdown_at, stuff_calc, calc, ringvars, startvars,
                   flushvars, time_of_last_audio_packet, shutdown_requested, connection_state_to_output,
                   please_stop, packet_count, late_seqno, statvars, threadvars, now, resend_out,
                   shutdown_calls, flush_calls, run_last>>

NextSeq == successor_diff

SpecSeq == InitSeq /\ [][NextSeq]_vars

\* C20: seq_diff(a, SUCCESSOR(a)) is 1 for every 16-bit sequence number a and every value
\* of ab_read, a at the largest positive ordinate from ab_read and a = 65535 included.
C20_SuccessorDiff == seq_calc.done => seq_calc.diff = 1

----------------------------------------------------------------------------
(* stuff_buffer_basic *)

\* frames per packet in the runs of stuff_buffer_basic
StuffFrameSize == 4

\* values of one channel of a sample
ChannelValues == {-3, 2}

\* stereo samples: <<left, right>>
StereoValues == ChannelValues \X ChannelValues

\* fix_volume with the software volume at its maximum
fix_volume == 65536

\* shortmean(a, b): (al + bl) / 2 in long arithmetic, the quotient truncated towards zero
shortmean(a, b) ==
    IF a + b >= 0 THEN (a + b) \div 2 ELSE -((-(a + b)) \div 2)

\* dithered_vol(sample) with fix_volume at 0x10000: no dither is added, and the
\* product is shifted right by 16
dithered_vol(sample) == (sample * fix_volume) \div 65536

\* one stereo sample through dithered_vol
Vol(x) == <<dithered_vol(x[1]), dithered_vol(x[2])>>

\* a faulty stuff_buffer_basic: the inserted sample is the mean of the sample before
\* the insertion point and the second sample after it
stuff_buffer_basic_Ahead(inptr, stuff, stuffsamp, F) ==
    IF stuff > 1 \/ stuff < -1 THEN [play_samples |-> F, out |-> <<>>]
    ELSE LET n == IF stuff # 0 THEN stuffsamp ELSE F
             head == [i \in 1 .. n |-> Vol(inptr[i])]
             mid == IF stuff = 1
                    THEN <<Vol(<<shortmean(inptr[n][1], inptr[n + 2][1]),
                                 shortmean(inptr[n][2], inptr[n + 2][2])>>)>>
                    ELSE <<>>
             from == IF stuff = -1 THEN n + 2 ELSE n + 1
             cnt == IF stuff # 0 THEN F + stuff - n ELSE 0
             rest == [i \in 1 .. cnt |-> Vol(inptr[from + i - 1])]
         IN  [play_samples |-> F + stuff, out |-> head \o mid \o rest]

\* stuff_buffer_basic(inptr, outptr, stuff) on a frame of F samples, with stuffsamp the
\* value of (rand() % (frame_size - 2)) + 1.  inptr[i] is the i-th stereo sample of the
\* buffer, counted from 1; the buffer is longer than the frame (OUTFRAME_BYTES), and
\* inptr[F + 1] is what lies behind the frame.  out is everything written to outptr.
stuff_buffer_basic(inptr, stuff, stuffsamp, F) ==
    IF stuff > 1 \/ stuff < -1 THEN [play_samples |-> F, out |-> <<>>]
    ELSE LET n == IF stuff # 0 THEN stuffsamp ELSE F
             head == [i \in 1 .. n |-> Vol(inptr[i])]
             mid == IF stuff = 1
                    THEN <<Vol(<<shortmean(inptr[n][1], inptr[n + 1][1]),
                                 shortmean(inptr[n][2], inptr[n + 1][2])>>)>>
                    ELSE <<>>
             from == IF stuff = -1 THEN n + 2 ELSE n + 1
             cnt == IF stuff # 0 THEN F + stuff - n ELSE 0
             rest == [i \in 1 .. cnt |-> Vol(inptr[from + i - 1])]
         IN  [play_samples |-> F + stuff, out |-> head \o mid \o rest]

\* a frame with what lies behind it, a directive and an insertion index; no result yet
InitStuff ==
    /\ InitWith(DefaultConfig)
    /\ seq_calc = <<>>
    /\ calc = <<>>
    /\ stuff_calc \in {[inptr |-> f, stuff |-> st, stuffsamp |-> k, done |-> FALSE,
                        play_samples |-> 0, out |-> <<>>] :
                           f \in [1 .. (StuffFrameSize + 1) -> StereoValues],
                           st \in {-1, 0, 1},
                           k \in 1 .. (StuffFrameSize - 2)}

stuff_frame ==
    /\ ~stuff_calc.done
    /\ LET r == stuff_buffer_basic(stuff_calc.inptr, stuff_calc.stuff, stuff_calc.stuffsamp,
                                   StuffFrameSize)
       IN  stuff_calc' = [stuff_calc EXCEPT !.done = TRUE,
                                            !.play_samples = r.play_samples,
                                            !.out = r.out]
    /\ UNCHANGED <<filter_at_put, number_of_statistics, last_play, access_log, config,
                   sessions, seq_calc, calc, last_arrival, shutdown_at, ringvars, startvars,
                   flushvars, time_of_last_audio_packet, shutdown_requested,
                   connection_state_to_output, please_stop, packet_count, late_seqno, statvars,
                   threadvars, now, resend_out, shutdown_calls, flush_calls, run_last>>

NextStuff == stuff_frame

SpecStuff == InitStuff /\ [][NextStuff]_vars

\* the samples in[a .. b] of the frame, in counted from 0 as in the source
InRange(f, a, b) == [i \in 1 .. (b - a + 1) |-> f[a + i]]

\* the per-channel integer mean of two stereo samples
StereoMean(x, y) == <<shortmean(x[1], y[1]), shortmean(x[2], y[2])>>

\* what stuffing the frame f with directive st at index k is to give, with the inserted
\* sample the mean of in[k-1] and in[j]
Stuffed(f, st, k, j) ==
    IF st = 0 THEN InRange(f, 0, StuffFrameSize - 1)
    ELSE IF st = 1
    THEN InRange(f, 0, k - 1) \o <<StereoMean(f[k], f[j + 1])>>
             \o InRange(f, k, StuffFrameSize - 1)
    ELSE InRange(f, 0, k - 1) \o InRange(f, k + 1, StuffFrameSize - 1)

\* the result is F + s samples, the first F + s written being as Stuffed says with the
\* second neighbour in[k + d]
StuffResult(d) ==
    stuff_calc.done =>
        /\ stuff_calc.play_samples = StuffFrameSize + stuff_calc.stuff
        /\ Len(stuff_calc.out) >= stuff_calc.play_samples
        /\ SubSeq(stuff_calc.out, 1, stuff_calc.play_samples) =
               Stuffed(stuff_calc.inptr, stuff_calc.stuff, stuff_calc.stuffsamp,
                       stuff_calc.stuffsamp + d)

\* C21 as stated: stuff_buffer_basic on a frame of F samples with directive s in
\* {-1, 0, 1} and index k in 1 .. F - 2 returns F + s, and its first F + s output samples
\* are the input for s = 0; in[0..k), the per-channel integer mean of in[k-1] and
\* in[k+1], then the input from in[k] for s = 1; the input without in[k] for s = -1.
C21_StuffMeanOfKPlus1 == StuffResult(1)

\* C21, amended: as above, with the inserted sample the per-channel integer mean of
\* in[k-1] and in[k], the two samples it is put between.
C21_StuffBasic == StuffResult(0)

\* a sample was inserted between two samples whose sum is negative and odd in a channel
C21_Witness ==
    /\ stuff_calc.done
    /\ stuff_calc.stuff = 1
    /\ stuff_calc.play_samples = StuffFrameSize + 1
    /\ \E c \in 1 .. 2 :
           stuff_calc.inptr[stuff_calc.stuffsamp][c]
               + stuff_calc.inptr[stuff_calc.stuffsamp + 1][c] = -1

----------------------------------------------------------------------------
(* The drain of buffer_get_frame *)

\* buffer_get_frame is at its drain loop with the ring synced and the filter active
DrainEntered == pc = "drain" /\ ab_synced /\ flush_rtp_timestamp # Zero32

\* buffer_get_frame has gone through its play decision: it has returned, with ab_mutex
\* released, or it waits on flowcontrol
DrainLeft == pc \in {"idle", "waiting", "play"}

\* C22: a pass of buffer_get_frame that reaches the drain with the ring synced and the
\* filter active ends the drain loop after dropping at most FLUSH_LIMIT frames, the head
\* slot being ready or not, and goes on to the play decision, where it releases ab_mutex
\* or waits.
C22_DrainEnds ==
    /\ [](flush_limit <= FLUSH_LIMIT)
    /\ DrainEntered ~> DrainLeft

----------------------------------------------------------------------------
(* Setting and clearing the flush filter *)

\* the step sets an active filter back to 0
FilterCleared == flush_rtp_timestamp # Zero32 /\ flush_rtp_timestamp' = Zero32

\* the step is a pass of the drain loop of buffer_get_frame
DrainStep == pc = "drain" /\ UNCHANGED <<flush_calls, now, please_stop>>

\* the step is a player_put_packet, in the runs with a flush by the control thread, of a
\* packet whose timestamp is in S
PutOf(S) ==
    /\ PutStep
    /\ \E d \in FlushSeqOffsets, ts \in TsInputs \cap S :
           player_put_packet(seq_sum(ab_write, d), ts)

\* timestamps strictly after T, among those the producer sends
AfterFilter == {ts \in TsInputs : StrictlyAfter(ts, flush_rtp_timestamp)}

\* an active filter is cleared only by a packet, or by a buffered head frame met by the
\* drain, whose timestamp is strictly after it
ClearedOnlyWhenPast ==
    FilterCleared =>
        \/ PutOf(AfterFilter)
        \/ /\ DrainStep
           /\ HeadSlot(audio_buffer, ab_read).ready
           /\ StrictlyAfter(HeadSlot(audio_buffer, ab_read).timestamp, flush_rtp_timestamp)

\* a packet whose timestamp is that of the active filter is dropped and the filter stays
PacketAtFilterDropped ==
    (flush_rtp_timestamp # Zero32 /\ connection_state_to_output
         /\ PutOf({flush_rtp_timestamp})) =>
        UNCHANGED <<audio_buffer, ab_read, ab_write, ab_synced, flush_rtp_timestamp>>

\* a buffered head frame whose timestamp is that of the active filter is dropped by the
\* drain and the filter stays
FrameAtFilterDropped ==
    (/\ DrainStep
     /\ ab_synced
     /\ flush_rtp_timestamp # Zero32
     /\ HeadSlot(audio_buffer, ab_read).ready
     /\ HeadSlot(audio_buffer, ab_read).timestamp = flush_rtp_timestamp) =>
        /\ ~HeadSlot(audio_buffer', ab_read).ready
        /\ ab_read' = SUCCESSOR(ab_read)
        /\ flush_rtp_timestamp' = flush_rtp_timestamp

\* C23: once the filter is set to T # 0 it is set back to 0 only when player_put_packet
\* sees a packet, or the drain sees a buffered head frame, whose timestamp is strictly
\* after T; a packet or a buffered frame whose timestamp is T is dropped and leaves the
\* filter active.
C23_InclusiveDropExclusiveClear ==
    [][ClearedOnlyWhenPast /\ PacketAtFilterDropped /\ FrameAtFilterDropped]_vars

----------------------------------------------------------------------------
(* The application of a requested flush by buffer_get_frame *)

\* configurations with and without a flush hook of the audio output
FlushHookConfigs == {[DefaultConfig EXCEPT !.output_has_flush = b] : b \in BOOLEAN}

InitApply ==
    /\ seq_calc = <<>>
    /\ stuff_calc = <<>>
    /\ calc = <<>>
    /\ \E cfg \in FlushHookConfigs : InitWith(cfg)

\* producer, the control thread's player_flush, and the scheduler thread's passes of
\* buffer_get_frame with the output requested on and off
NextApply ==
    \/ PutPacketAroundFlush
    \/ Flush
    \/ ThreadStart
    \/ GetFrameTop
    \/ GetFrameTopOff
    \/ get_frame_drain
    \/ GetFrameDecideLocked

SpecApply == InitApply /\ [][NextApply]_vars

\* the step is the top of a pass of buffer_get_frame's loop
TopStep == pc \in {"idle", "waiting"} /\ pc' = "drain"

\* the calls of config.output->flush made by the scheduler thread's latest step
FlushHookCalls ==
    Cardinality({i \in DOMAIN access_log.scheduler.ops :
                     access_log.scheduler.ops[i] = Call("flush")})

\* a pass that finds flush_requested set applies the flush
FlushApplied ==
    (TopStep /\ flush_requested) =>
        /\ FlushHookCalls' = IF config.output_has_flush THEN 1 ELSE 0
        /\ \A j \in DOMAIN audio_buffer' : ~audio_buffer'[j].ready
        /\ ~ab_synced'
        /\ ab_buffering'
        /\ first_packet_timestamp' = Zero32
        /\ first_packet_time_to_play' = W(0)
        /\ ~flush_requested'
        /\ flush_rtp_timestamp' = flush_rtp_timestamp

\* a packet accepted while the ring is not synced sets both cursors from its seqno
ResyncedByPacket ==
    (PutStep /\ ~ab_synced /\ ab_synced') =>
        \E d \in FlushSeqOffsets, ts \in TsInputs :
            /\ player_put_packet(seq_sum(ab_write, d), ts)
            /\ ab_read' = seq_sum(ab_write, d)
            /\ ab_write' = SUCCESSOR(seq_sum(ab_write, d))
            /\ Placed(seq_sum(ab_write, d), ts)

\* C24: a pass of buffer_get_frame that finds flush_requested set applies the flush in
\* that pass: config.output->flush is called once if there is one, every slot is
\* unready, the ring is not synced and is buffering, first_packet_timestamp and
\* first_packet_time_to_play are 0 and flush_requested is 0, while flush_rtp_timestamp
\* keeps its value; the next packet accepted sets both cursors from its seqno.
C24_FlushApplied == [][FlushApplied /\ ResyncedByPacket]_vars

\* a flush has been applied to a ring that held a buffered frame with a first packet
\* time, the hook was called, and the filter is still the boundary asked for
C24_Witness ==
    /\ pc = "drain"
    /\ FlushHookCalls = 1
    /\ ~ab_synced
    /\ ~flush_requested
    /\ flush_boundary # Zero32
    /\ flush_rtp_timestamp = flush_boundary
    /\ \E j \in DOMAIN audio_buffer :
           /\ ~audio_buffer[j].ready
           /\ audio_buffer[j].data # <<"uninit">>

----------------------------------------------------------------------------
(* Packets that are too late *)

\* the packet is neither the expected one, nor ahead of ab_write, nor after ab_read
TooLate(seq) ==
    /\ ab_synced
    /\ seq # ab_write
    /\ ~seq_order(ab_write, seq, ab_read)
    /\ ~seq_order(ab_read, seq, ab_read)

TooLateEffect ==
    /\ too_late_packets' = too_late_packets + 1
    /\ time_of_last_audio_packet' = now
    /\ audio_buffer' = audio_buffer
    /\ ab_read' = ab_read
    /\ ab_write' = ab_write
    /\ ab_synced' = ab_synced
    /\ ab_buffering' = ab_buffering
    /\ resend_out' = <<>>
    /\ resend_requests' = resend_requests

\* C25: a packet that player_put_packet classifies as too late is dropped:
\* too_late_packets grows by one and time_of_last_audio_packet is set to the clock,
\* while the slots, both cursors, ab_synced and ab_buffering keep their values and
\* rtp_request_resend is not called.
C25_TooLateDropped ==
    [][PutStep =>
           \A d \in SeqOffsets :
               LET seq == (ab_write + d) % SEQ_MOD
               IN  (TooLate(seq) /\ Classified(seq, PacketTs)) => TooLateEffect]_vars

\* a too-late packet has just been dropped while a frame is buffered
C25_Witness ==
    /\ too_late_packets = 1
    /\ late_packets = 0
    /\ time_of_last_audio_packet = now
    /\ now > 0
    /\ packet_count = 2
    /\ resend_requests = 0
    /\ ab_write = SUCCESSOR(ab_read)
    /\ \E j \in DOMAIN audio_buffer : audio_buffer[j].ready

----------------------------------------------------------------------------
(* The play decision of buffer_get_frame *)

\* the timestamps of the packets: one due before the first packet's time to play, one
\* due 10000 frames later
DueTs == {PacketTs, Add32(PacketTs, 10000)}

\* the instants the clock is read at: at start, after the first frame is due, and just
\* before and at the instant the later frame is due
DueInstants == {44100, 131300, 135686, 135687}

PutPacketDue == \E ts \in DueTs : player_put_packet(ab_write, ts)

DuePasses ==
    /\ \E t \in DueInstants : t > now /\ now' = t
    /\ UNCHANGED <<filter_at_put, number_of_statistics, last_play, access_log, auxvars,
                   ringvars, startvars, flushvars, time_of_last_audio_packet,
                   shutdown_requested, connection_state_to_output, please_stop,
                   packet_count, late_seqno, statvars, threadvars, resend_out, shutdown_calls,
                   flush_calls, run_last>>

NextDue ==
    \/ PutPacketDue
    \/ DuePasses
    \/ player_stop
    \/ thread_exit
    \/ ThreadStart
    \/ GetFrameTop
    \/ get_frame_drain
    \/ GetFrameDecide
    \/ ThreadPlay
    \/ thread_mark_timestamp
    \/ thread_mark_sequence_number

SpecDue == Init /\ [][NextDue]_vars

\* a uint32_t as a number
Value32(ts) == ts[1] * SEQ_MOD + ts[2]

\* the instant a frame is due, in frame periods:
\* ref_local_time + (head_ts - ref_ts) + latency + latency offset - desired buffer length
DueInstant(ts, ref) ==
    ref.time + (Value32(ts) - Value32(ref.ts)) + config.latency
    + config.audio_backend_latency_offset - config.audio_backend_buffer_desired_length

\* what the wait test of the pass found: synced, not buffering, a reference time, and
\* the head frame due
Releasable(head, ref) ==
    /\ ab_synced'
    /\ ~ab_buffering'
    /\ ref.ts # Zero32
    /\ head.ready
    /\ now >= DueInstant(head.timestamp, ref)

\* C26: buffer_get_frame returns a frame only when its wait test finds the ring synced
\* and not buffering, a reference with reference_timestamp # 0, and the clock at or
\* after reference_timestamp_time + (head timestamp - reference_timestamp + latency +
\* latency offset - desired buffer length) frame periods; in every other pass with
\* please_stop clear it waits and returns nothing.
C26_ReleasedWhenDue ==
    [][pc = "decide" =>
           \A r1 \in RefInputs, r2 \in RefInputs :
               get_frame_decide(r1, r2, 0) =>
                   LET head == HeadSlot(audio_buffer, ab_read)
                   IN  /\ pc' = "play" => Releasable(head, r2)
                       /\ (~please_stop /\ ~Releasable(head, r2)) =>
                              (pc' = "waiting" /\ inframe' = -1 /\ ab_read' = ab_read)]_vars

\* the frame due 10000 frames later has been returned at the instant it is due, the
\* one before it having been returned earlier
C26_Witness ==
    /\ pc = "play"
    /\ now = 135687
    /\ inframe # -1
    /\ Slot(audio_buffer, inframe).timestamp = Add32(PacketTs, 10000)
    /\ ~ab_buffering
    /\ ab_synced

----------------------------------------------------------------------------
(* The block of silence played while buffering *)

\* what config.output->delay() reports while buffering, around max_dac_delay
SilenceDacDelays == {0, 1, 3706, 4000, 4409, 4410, 4411, 5000}

\* exact_frame_gap, around frame_size * 2 and around filler_size
SilenceGaps == {1, 352, 704, 705, 1000, 4410, 4411, 88202}

\* the variables no calculation on its own changes
modelvars ==
    <<filter_at_put, number_of_statistics, last_play, access_log, config, sessions,
      last_arrival, shutdown_at, ringvars, startvars, flushvars, time_of_last_audio_packet,
      shutdown_requested, connection_state_to_output, please_stop, packet_count, late_seqno,
      statvars, threadvars, now, resend_out, shutdown_calls, flush_calls, run_last>>

InitSilence ==
    /\ InitWith(DefaultConfig)
    /\ seq_calc = <<>>
    /\ stuff_calc = <<>>
    /\ calc \in {[dac_delay |-> d, exact_frame_gap |-> g, done |-> FALSE, fs |-> 0,
                  ab_buffering |-> TRUE] : d \in SilenceDacDelays, g \in SilenceGaps}

\* lines 586-602 with exact_frame_gap > 0: the size fs of the block given to
\* config.output->play, and ab_buffering afterwards
silence_block ==
    /\ ~calc.done
    /\ calc' = [calc EXCEPT
                    !.done = TRUE,
                    !.fs = IF EndsBuffering(calc.exact_frame_gap, calc.dac_delay)
                           THEN calc.exact_frame_gap
                           ELSE SilenceCap(calc.dac_delay),
                    !.ab_buffering = ~EndsBuffering(calc.exact_frame_gap, calc.dac_delay)]
    /\ UNCHANGED <<modelvars, seq_calc, stuff_calc>>

NextSilence == silence_block

SpecSilence == InitSilence /\ [][NextSilence]_vars

\* the least of three numbers
Min3(a, b, c) ==
    LET m == IF a <= b THEN a ELSE b
    IN  IF m <= c THEN m ELSE c

\* C27: while buffering, for every dac_delay >= 0 and every exact_frame_gap > 0 the
\* block of silence given to config.output->play has exactly
\* min(4410, max_dac_delay - dac_delay, exact_frame_gap) frames, max_dac_delay = 4410.
C27_SilenceBlock ==
    calc.done => calc.fs = Min3(4410, 4410 - calc.dac_delay, calc.exact_frame_gap)

\* no block raises the queue of the device above max_dac_delay
SilenceKeepsQueue == calc.done => calc.dac_delay + calc.fs <= 4410

\* no block is longer than filler_size
SilenceAtMostFiller == calc.done => calc.fs <= 4410

----------------------------------------------------------------------------
(* The time to play of the first packet and of the play decision *)

\* uint32_t timestamps <<high half, low half>> at both ends of the range, around the
\* middle and in between
WrapTimestamps ==
    {<<0, 1>>, <<0, 10>>, <<0, 55001>>, <<1, 22664>>, <<32767, 65535>>, <<32768, 0>>,
     <<32768, 5>>, <<65534, 42872>>, <<65535, 65526>>, <<65535, 65535>>}

\* b - a as a signed 32-bit difference, as a wide integer
Delta32(b, a) ==
    LET d == Sub32(b, a)
    IN  IF d[1] >= 32768 THEN <<d[1] - SEQ_MOD, d[2]>> ELSE d

\* a packet timestamp and a reference timestamp less than 2^31 apart
InitDeadline ==
    /\ InitWith(DefaultConfig)
    /\ seq_calc = <<>>
    /\ stuff_calc = <<>>
    /\ calc \in {[timestamp |-> t, ref |-> [ts |-> r, time |-> RefLocked.time],
                  done |-> FALSE, first_packet_time_to_play |-> W(0),
                  time_to_play |-> W(0)] :
                     t \in WrapTimestamps, r \in WrapTimestamps}
    /\ Delta32(calc.timestamp, calc.ref.ts) # <<-32768, 0>>

\* lines 526-532 and 636-651 for a head packet with the timestamp and the reference
time_to_play_of ==
    /\ ~calc.done
    /\ calc' = [calc EXCEPT
                    !.done = TRUE,
                    !.first_packet_time_to_play =
                        FirstPacketTimeToPlay(calc.timestamp, calc.ref),
                    !.time_to_play = TimeToPlay(calc.timestamp, calc.ref)]
    /\ UNCHANGED <<modelvars, seq_calc, stuff_calc>>

NextDeadline == time_to_play_of

SpecDeadline == InitDeadline /\ [][NextDeadline]_vars

\* C28: first_packet_time_to_play is reference_timestamp_time + (delta + latency +
\* latency offset) frame periods with delta the signed 32-bit difference of the first
\* packet's timestamp and reference_timestamp, for every two timestamps less than 2^31
\* apart, also on opposite sides of the 2^32 wrap; the play decision uses the same delta.
C28_WrapDelta ==
    calc.done =>
        LET delta == Delta32(calc.timestamp, calc.ref.ts)
        IN  /\ calc.first_packet_time_to_play =
                   WAdd(W(calc.ref.time),
                        WAdd(delta, W(config.latency + config.audio_backend_latency_offset)))
            /\ calc.time_to_play =
                   WAdd(W(calc.ref.time),
                        WAdd(delta, W(config.latency + config.audio_backend_latency_offset
                                      - config.audio_backend_buffer_desired_length)))

\* the same for two timestamps whose values as numbers differ by less than 2^31
DeltaOfNearValues ==
    (/\ calc.done
     /\ WSub(calc.timestamp, calc.ref.ts)[1] < 32768
     /\ WSub(calc.timestamp, calc.ref.ts)[1] >= -32768) =>
        calc.first_packet_time_to_play =
            WAdd(W(calc.ref.time),
                 WAdd(Delta32(calc.timestamp, calc.ref.ts),
                      W(config.latency + config.audio_backend_latency_offset)))

----------------------------------------------------------------------------
(* The loss of sync test of player_thread_func *)

\* packets of a run long enough for four consecutive frames and one more
MaxSyncPackets == 5

\* the configurations with the default resyncthreshold and with none
ResyncConfigs == {DefaultConfig, [DefaultConfig EXCEPT !.resyncthreshold = 0]}

InitSync ==
    /\ seq_calc = <<>>
    /\ stuff_calc = <<>>
    /\ calc = <<>>
    /\ \E cfg \in ResyncConfigs : InitWith(cfg)

\* the producer: packets in order
PutPacketSync == put_packet(ab_write, PacketTs, MaxSyncPackets)

\* the clock is read shortly before the first packet's time to play
SyncInstants == {131300}

SyncPasses ==
    /\ pc = "start"
    /\ \E t \in SyncInstants : t > now /\ now' = t
    /\ UNCHANGED <<filter_at_put, number_of_statistics, last_play, access_log, auxvars,
                   ringvars, startvars, flushvars, time_of_last_audio_packet,
                   shutdown_requested, connection_state_to_output, please_stop,
                   packet_count, late_seqno, statvars, threadvars, resend_out, shutdown_calls,
                   flush_calls, run_last>>

\* config.output->delay() reports an empty queue (sync_error -1002 frames) or the
\* desired length of the queue (sync_error 5613 frames)
NextSync ==
    \/ PutPacketSync
    \/ SyncPasses
    \/ player_stop
    \/ thread_exit
    \/ ThreadStart
    \/ GetFrameTop
    \/ get_frame_drain
    \/ GetFrameDecideLocked
    \/ ThreadPlayDac
    \/ thread_mark_timestamp
    \/ thread_mark_sequence_number

SpecSync == InitSync /\ [][NextSync]_vars

\* player_flush(timestamp) is called by the step
FlushIssued(timestamp) ==
    /\ flush_requested'
    /\ flush_rtp_timestamp' = timestamp
    /\ flush_boundary' = timestamp

\* the test on a frame that is not a supplied silent frame: the fourth frame in a row
\* with abs(sync_error) > resyncthreshold flushes to its timestamp and resets the
\* count, an earlier one counts, and any other frame resets the count; stopping tells
\* whether the frame is taken as one played while the thread is asked to stop
SyncTest(frame, err, stopping) ==
    LET R == config.resyncthreshold
        out == R > 0 /\ ~stopping /\ (WLeq(W(R + 1), err) \/ WLeq(err, W(-(R + 1))))
    IN  /\ (out /\ sync_error_out_of_bounds = 3) =>
               (FlushIssued(frame.timestamp) /\ sync_error_out_of_bounds' = 0)
        /\ (out /\ sync_error_out_of_bounds < 3) =>
               /\ sync_error_out_of_bounds' = sync_error_out_of_bounds + 1
               /\ UNCHANGED <<flush_requested, flush_rtp_timestamp, flush_boundary>>
        /\ ~out =>
               /\ sync_error_out_of_bounds' = 0
               /\ UNCHANGED <<flush_requested, flush_rtp_timestamp, flush_boundary>>

LossOfSync(always) ==
    PlayStep =>
        \A dac \in PlayDacDelays :
            thread_play(RefLocked, dac) =>
                LET frame == Slot(audio_buffer, inframe)
                IN  frame.timestamp # Zero32 =>
                        SyncTest(frame, SyncError(frame.timestamp, RefLocked, dac),
                                 ~always /\ please_stop)

\* the pass of buffer_get_frame after the flush goes back to buffering
BufferingAfterFlush == (TopStep /\ flush_requested) => (ab_buffering' /\ ~ab_synced')

SyncCounterKept ==
    /\ sync_error_out_of_bounds \in 0 .. 3
    /\ config.resyncthreshold = 0 => (~flush_requested /\ sync_error_out_of_bounds = 0)

----------------------------------------------------------------------------
(* The correction player_thread_func asks for *)

\* the timestamps of the packets: one due before the first packet's time to play, one
\* due a little more than five seconds after it
CorrectionTs == {PacketTs, Add32(PacketTs, 230000)}

\* the instants the clock is read at: before the first packet's time to play (132302),
\* within the five seconds after it, at their end, and when the later frame is due
CorrectionInstants == {131300, 133300, 352801, 352802, 355687}

\* what config.output->delay() reports to player_thread_func, around
\* DAC_BUFFER_QUEUE_MINIMUM_LENGTH
CorrectionDacDelays == {DAC_BUFFER_QUEUE_MINIMUM_LENGTH - 1, DAC_BUFFER_QUEUE_MINIMUM_LENGTH,
                        DefaultConfig.audio_backend_buffer_desired_length}

PutPacketCorrection == \E ts \in CorrectionTs : player_put_packet(ab_write, ts)

CorrectionPasses ==
    /\ \E t \in CorrectionInstants : t > now /\ now' = t
    /\ UNCHANGED <<filter_at_put, number_of_statistics, last_play, access_log, auxvars,
                   ringvars, startvars, flushvars, time_of_last_audio_packet,
                   shutdown_requested, connection_state_to_output, please_stop,
                   packet_count, late_seqno, statvars, threadvars, resend_out, shutdown_calls,
                   flush_calls, run_last>>

ThreadPlayCorrection == \E dac \in CorrectionDacDelays : thread_play(RefLocked, dac)

NextCorrection ==
    \/ PutPacketCorrection
    \/ CorrectionPasses
    \/ ThreadStart
    \/ GetFrameTop
    \/ get_frame_drain
    \/ GetFrameDecideLocked
    \/ ThreadPlayCorrection
    \/ thread_mark_timestamp
    \/ thread_mark_sequence_number

SpecCorrection == Init /\ [][NextCorrection]_vars

\* five seconds in frame periods
FiveSeconds == 5 * 44100

\* sync_error of a frame as a number: the frames the clock is past the reference time,
\* plus the reference timestamp, less the timestamp of the frame next out of the DAC,
\* less the latency
SyncErrorOf(ts, ref, dac_delay) ==
    (now - ref.time) + Value32(ref.ts) - (Value32(ts) - dac_delay) - config.latency

\* amount_to_stuff a of a frame played with sync_error err and DAC queue dac_delay
Correction(a, err, dac_delay) ==
    LET deadline == WToInt(first_packet_time_to_play)
    IN  /\ (/\ first_packet_time_to_play # W(0)
            /\ deadline <= now
            /\ now < deadline + FiveSeconds) => a = 0
        /\ a \in {-1, 0, 1}
        /\ a # 0 => dac_delay >= 5000
        /\ a = -1 => err > config.tolerance
        /\ a = 1 => err < -config.tolerance

\* C30: a frame that is not a supplied silent frame and is played at a clock from
\* first_packet_time_to_play to less than 5 seconds after it has amount_to_stuff 0,
\* whatever sync_error and the DAC queue are; at any time amount_to_stuff is not 0
\* only if abs(sync_error) > tolerance and the DAC queue holds 5000 frames or more, and
\* it is -1 for sync_error > tolerance and 1 for sync_error < -tolerance.
C30_Correction ==
    [][PlayStep =>
           \A dac \in CorrectionDacDelays :
               thread_play(RefLocked, dac) =>
                   LET frame == Slot(audio_buffer, inframe)
                   IN  frame.timestamp # Zero32 =>
                           Correction(last_play'.amount_to_stuff,
                                      SyncErrorOf(frame.timestamp, RefLocked, dac),
                                      dac)]_vars

\* a frame has been played five seconds after the first packet's time to play with a
\* sample removed
CorrectionRemoved ==
    /\ pc = "mark_ts"
    /\ now = 352802
    /\ first_packet_time_to_play = W(132302)
    /\ last_play.amount_to_stuff = -1

\* a frame has been played less than five seconds after the first packet's time to
\* play, with a sync_error above the tolerance, and without a correction
C30_Witness ==
    /\ pc = "mark_ts"
    /\ now = 352801
    /\ first_packet_time_to_play = W(132302)
    /\ last_play.stuffing
    /\ last_play.amount_to_stuff = 0

\* a frame has been played with a sample added
CorrectionAdded == pc = "mark_ts" /\ last_play.amount_to_stuff = 1

----------------------------------------------------------------------------
(* The signals to the flowcontrol condition *)

\* the step of thread t signals flowcontrol
Signalled(t) == \E i \in DOMAIN access_log'[t].ops : access_log'[t].ops[i] = Signal

\* the step is the control thread's player_flush
FlushCall == flush_calls' = flush_calls + 1

\* the step is player_stop
StopCall == ~please_stop /\ please_stop'

PutSignals == (PutStep /\ connection_state_to_output) => Signalled("producer")

StopSignals == StopCall => Signalled("control")

FlushSignals == FlushCall => Signalled("control")

\* C31: flowcontrol is signalled by every player_put_packet made while
\* connection_state_to_output is set, by every player_flush and by player_stop, so that
\* a scheduler thread in its timed wait is woken by a flush.
C31_FlowcontrolSignalled == [][PutSignals /\ FlushSignals /\ StopSignals]_vars

----------------------------------------------------------------------------
(* ORDINATE *)

\* a sequence number x at a distance from ab_read, no result yet
InitOrdinate ==
    /\ InitWith(DefaultConfig)
    /\ seq_calc = <<>>
    /\ stuff_calc = <<>>
    /\ calc \in {[x |-> seq_sum(r, d), ab_read |-> r, done |-> FALSE, t |-> 0] :
                     r \in SeqAnchors, d \in SeqDistances}

\* ORDINATE(x) with ab_read as given
ordinate_of ==
    /\ ~calc.done
    /\ calc' = [calc EXCEPT !.done = TRUE, !.t = ORDINATE(calc.x, calc.ab_read)]
    /\ UNCHANGED <<modelvars, seq_calc, stuff_calc>>

NextOrdinate == ordinate_of

SpecOrdinate == InitOrdinate /\ [][NextOrdinate]_vars

\* (x - ab_read) mod 65536
OrdinateDistance == (calc.x - calc.ab_read + SEQ_MOD) % SEQ_MOD

\* the value the claim gives
OrdinateValue ==
    calc.done =>
        calc.t = IF OrdinateDistance < 32767 THEN OrdinateDistance
                 ELSE OrdinateDistance - 65536

\* the range the claim gives
OrdinateRange == calc.done => (calc.t >= -32768 /\ calc.t < 32767)

\* C32: for every 16-bit x and every ab_read, ORDINATE(x) is the signed 16-bit distance
\* of x from ab_read, in [-32768, 32767): d = (x - ab_read) mod 65536 when d < 32767
\* and d - 65536 otherwise, never below -32768.
C32_Ordinate == OrdinateValue /\ OrdinateRange

----------------------------------------------------------------------------
(* A packet for the head slot *)

\* the sequence numbers offered: the expected packet, a gap of one, the packet of the
\* head slot, and a packet 32765 ahead of ab_write
HeadSeqs == {ab_write, seq_sum(ab_write, 1), ab_read, seq_sum(ab_write, 32765)}

PutPacketHead == \E seq \in HeadSeqs : player_put_packet(seq, PacketTs)

NextHead ==
    \/ PutPacketHead
    \/ TimePasses
    \/ ThreadStart
    \/ GetFrameTop
    \/ get_frame_drain
    \/ GetFrameDecide
    \/ ThreadPlay
    \/ thread_mark_timestamp
    \/ thread_mark_sequence_number

SpecHead == Init /\ [][NextHead]_vars

\* the packet put has the sequence number of the head slot while the ring is synced
\* and ab_write is another number
HeadPacket ==
    /\ PutStep
    /\ ab_synced
    /\ ab_write # ab_read
    /\ Classified(ab_read, PacketTs)

\* C33: a packet whose seqno is ab_read while ab_write is not ab_read is dropped and
\* counted in too_late_packets; the head slot and both cursors keep their values.
C33_HeadPacketDropped == [][HeadPacket => TooLateEffect]_vars

\* the same while ab_write is less than 32767 ahead of ab_read
HeadPacketDroppedInRange ==
    [][(HeadPacket /\ seq_diff(ab_read, ab_write, ab_read) > 0) => TooLateEffect]_vars

\* the packet of a head slot that is not ready has been dropped
HeadPacketRefused ==
    /\ too_late_packets = 1
    /\ packet_count = 3
    /\ ab_write = seq_sum(ab_read, 2)
    /\ ~HeadSlot(audio_buffer, ab_read).ready
    /\ pc = "waiting"

----------------------------------------------------------------------------
(* The head frame is returned in the end *)

\* the timestamps of the packets: an RTP timestamp of 0 and one that is not 0
ZeroTs == {Zero32, PacketTs}

PutPacketZero == \E ts \in ZeroTs : player_put_packet(ab_write, ts)

\* the instants the clock is read at: after the packet with timestamp 0 is due (70686)
\* and before its time to play (77301), and after the other packet is due (125687) and
\* before its time to play (132302)
ZeroInstants == {75000, 131300}

ZeroPasses ==
    /\ \E t \in ZeroInstants : t > now /\ now' = t
    /\ UNCHANGED <<filter_at_put, number_of_statistics, last_play, access_log, auxvars,
                   ringvars, startvars, flushvars, time_of_last_audio_packet,
                   shutdown_requested, connection_state_to_output, please_stop,
                   packet_count, late_seqno, statvars, threadvars, resend_out, shutdown_calls,
                   flush_calls, run_last>>

\* producer in order, clock and scheduler thread with a locked reference; no
\* player_flush by the control thread and no player_stop
NextZero ==
    \/ PutPacketZero
    \/ ZeroPasses
    \/ Scheduler

\* the scheduler thread keeps taking steps and the clock keeps moving
SpecZero == Init /\ [][NextZero]_vars /\ WF_pc(SchedulerStep) /\ WF_vars(ZeroPasses)

\* the ring is synced and the head slot holds the decoded packet q, ready
HeadHeld(q) ==
    /\ ab_synced
    /\ ab_read = q
    /\ HeadSlot(audio_buffer, q).ready
    /\ HeadSlot(audio_buffer, q).sequence_number = q
    /\ HeadSlot(audio_buffer, q).data[1] = "pcm"

\* buffer_get_frame has returned the frame of packet q
HeadOut(q) == pc = "play" /\ inframe = BUFIDX(q) /\ ab_read = SUCCESSOR(q)

\* C34: when the ring is synced, the reference time is there, the head slot holds a
\* ready decoded packet, the clock keeps moving and neither player_flush nor
\* player_stop is called, buffer_get_frame returns that frame in the end, whatever the
\* packet's timestamp, 0 included.  (The scheduler thread calls player_flush itself
\* for a first packet that is late.)
C34_HeadReturned ==
    \A q \in 0 .. (MaxPackets - 1) : HeadHeld(q) ~> (HeadOut(q) \/ flush_requested)

\* the same for the packets with a timestamp that is not 0
HeadReturnedNotZero ==
    \A q \in 0 .. (MaxPackets - 1) :
        (HeadHeld(q) /\ HeadSlot(audio_buffer, q).timestamp # Zero32)
            ~> (HeadOut(q) \/ flush_requested)

----------------------------------------------------------------------------
(* Every flush request is applied in the end *)

\* the step that resets flush_requested is the flush test of buffer_get_frame, which
\* clears the ring
FlushResetClears ==
    flush_requested /\ ~flush_requested' =>
        /\ TopStep
        /\ ~ab_synced'
        /\ ab_buffering'
        /\ \A i \in DOMAIN audio_buffer' : ~audio_buffer'[i].ready

\* C35: every flush request is applied in the end: after player_flush has set
\* flush_requested, a later pass of the scheduler thread clears the ring and resets
\* flush_requested, with or without a packet after the call and wherever the thread
\* was in its pass or in playback at the call, provided player_stop is not called.
C35_FlushEventuallyApplied ==
    /\ [][FlushResetClears]_vars
    /\ flush_requested ~> (~flush_requested \/ please_stop)

\* the same for the requests that do not meet the drain loop going round on a head
\* slot that is not ready
FlushAppliedUnlessSpinning ==
    flush_requested ~> (~flush_requested \/ please_stop \/ Spinning)

\* a request made while the scheduler thread is in its timed wait or in playback and
\* no packet arrives after it
FlushAppliedFromWait ==
    (flush_requested /\ pc \in {"waiting", "play", "mark_ts", "mark_seq"})
        ~> (~flush_requested \/ please_stop)

====
